---------------------------- MODULE Spec2Model ----------------------------
(***************************************************************************)
(* Model of numba/core/frontend2/bc2ir.py: the bytecode-to-dataflow-graph  *)
(* builder (BC2DDG, convert_bc_to_ddg) and the region-tree driver          *)
(* (convert_scfg_to_dataflow).                                             *)
(*                                                                         *)
(* Python objects are modelled by value.  An Op lives in the heap         *)
(* `ops` of the simulator that created it and is identified by its index   *)
(* there (its creation order); a ValueState refers to its parent Op by     *)
(* that index.  A Python dict that keeps insertion order (Op._inputs,      *)
(* Op._outputs) is a sequence of [key, val] entries; a dict whose order    *)
(* no code reads (varmap, incoming_vars) is a function.                    *)
(***************************************************************************)
EXTENDS Integers, Sequences, FiniteSets, TLC

(* ------------------------------ bounds -------------------------------- *)

\* Longest instruction list of one block explored by Spec.
MaxInsts == 3

\* Number of instructions of the instruction table explored by DriverSpec.
TableLen == 4

(* --------------------------- Python values ---------------------------- *)

\* Python's None.
None == [none |-> TRUE]

\* Local variable names that LOAD_FAST / STORE_FAST may carry as argval.
VarNames == {"x", "y"}

\* Argument counts that CALL may carry as argval.
Argcs == {0, 1, 2}

\* Opcode names for which BC2DDG defines a method op_<opname>.
RuleOpnames ==
    { "RESUME", "LOAD_GLOBAL", "LOAD_CONST", "STORE_FAST", "LOAD_FAST",
      "PRECALL", "CALL", "GET_ITER", "FOR_ITER", "BINARY_OP",
      "RETURN_VALUE", "JUMP_BACKWARD" }

\* Opcode names of the instruction set that BC2DDG has no method for.
NoRuleOpnames == { "NOP" }

\* The argvals an instruction of the given opcode can carry.
ArgvalsOf(opname) ==
    IF opname \in {"STORE_FAST", "LOAD_FAST"} THEN VarNames
    ELSE IF opname = "CALL" THEN Argcs
    ELSE {None}

\* Byte width of one instruction in the table.
InstSize == 2

\* dis.Instruction: the fields the builder reads.
Instruction(opname, argval, offset) ==
    [opname |-> opname, argval |-> argval, offset |-> offset]

(* ----------------------- ordered dict (by value) ---------------------- *)

DictKeys(d) == { d[i].key : i \in 1..Len(d) }

DictIndex(d, k) == CHOOSE i \in 1..Len(d) : d[i].key = k

DictGet(d, k) == d[DictIndex(d, k)].val

\* d[k] = v : a new key is appended, an existing key keeps its position.
DictSet(d, k, v) ==
    IF k \in DictKeys(d)
    THEN [d EXCEPT ![DictIndex(d, k)] = [key |-> k, val |-> v]]
    ELSE Append(d, [key |-> k, val |-> v])

\* f[k] = v on an unordered dict.
MapSet(f, k, v) == [n \in DOMAIN f \cup {k} |-> IF n = k THEN v ELSE f[n]]

EmptyMap == [n \in {} |-> None]

(* ------------------------- ValueState and Op -------------------------- *)

\* A local assignment `v = <expression>` followed by the code K that uses v.
Bind(v, K(_)) == K(v)

ValueState(parent, name, out_index, is_effect) ==
    [parent |-> parent, name |-> name, out_index |-> out_index,
     is_effect |-> is_effect]

Op(opname, bc_inst) ==
    [opname |-> opname, bc_inst |-> bc_inst, inputs |-> <<>>, outputs |-> <<>>]

\* op = Op(...) run by the simulator c: the new object is the last of the
\* heap.  [c |-> the simulator after, op |-> the new Op]
NewOp(c, opname, bc_inst) ==
    [c  |-> [c EXCEPT !.ops = Append(@, Op(opname, bc_inst))],
     op |-> Len(c.ops) + 1]

\* op.add_input(name, vs)
add_input(c, op, name, vs) ==
    [c EXCEPT !.ops[op].inputs = DictSet(@, name, vs)]

\* add_output with out_index taken from the number of inputs.
add_output_index_of_inputs(c, op, name, is_effect) ==
    Bind(ValueState(op, name, Len(c.ops[op].inputs), is_effect), LAMBDA vs :
         [c  |-> [c EXCEPT !.ops[op].outputs = DictSet(@, name, vs)],
          vs |-> vs])

\* op.add_output(name, is_effect): [c |-> the simulator after, vs |-> result]
add_output(c, op, name, is_effect) ==
    Bind(ValueState(op, name, Len(c.ops[op].outputs), is_effect), LAMBDA vs :
         [c  |-> [c EXCEPT !.ops[op].outputs = DictSet(@, name, vs)],
          vs |-> vs])

(* ------------------------------ BC2DDG -------------------------------- *)

\* f"stack[{n}]"
StackSlotName(n) == "stack[" \o ToString(n) \o "]"

\* f"arg.{i}"
ArgName(i) == "arg." \o ToString(i)

\* BC2DDG.__init__.  ops is the heap of the Ops this simulator creates;
\* raised is the exception a primitive raised (None: none).  npush and
\* poplog are history: the number of push calls made by the rules, and one
\* entry per pop call (was the stack empty, the value returned, the stack
\* depth after the call, the number of Ops the call created).
BC2DDG_init ==
    Bind([ops |-> <<>>, stack |-> <<>>, effect |-> None,
          varmap |-> EmptyMap, incoming_vars |-> EmptyMap,
          incoming_stackvars |-> <<>>, raised |-> None,
          npush |-> 0, poplog |-> <<>>],                LAMBDA c0 :
    Bind(NewOp(c0, "start", None),                      LAMBDA start_env :
    Bind(add_output(start_env.c, start_env.op, "env", TRUE), LAMBDA r :
    [r.c EXCEPT !.effect = r.vs])))

\* self.stack.append(val), as pop and push both do it.
stack_append(c, val) == [c EXCEPT !.stack = Append(@, val)]

\* BC2DDG.push
push(c, val) == [stack_append(c, val) EXCEPT !.npush = @ + 1]

\* pop_incoming with the slot named by the depth of the stack instead of the
\* number of placeholders made so far.
pop_incoming_by_depth(c) ==
    Bind(NewOp(c, "stack.incoming", None),              LAMBDA n :
    Bind(add_output(n.c, n.op, StackSlotName(Len(c.stack)), FALSE), LAMBDA r :
    [stack_append(r.c, r.vs) EXCEPT
         !.incoming_stackvars = Append(@, r.vs)]))

\* The body of `if not self.stack:` in BC2DDG.pop.
pop_incoming(c) ==
    Bind(NewOp(c, "stack.incoming", None),              LAMBDA n :
    Bind(add_output(n.c, n.op,
             StackSlotName(Len(c.incoming_stackvars)), FALSE), LAMBDA r :
    [stack_append(r.c, r.vs) EXCEPT
         !.incoming_stackvars = Append(@, r.vs)]))

\* pop_return that reads the top of the stack and leaves it there.
pop_return_peek(c0, c1) ==
    Bind(c1.stack[Len(c1.stack)],                       LAMBDA vs :
    [c  |-> [c1 EXCEPT
                !.poplog = Append(@, [underflow |-> c0.stack = <<>>,
                                      vs        |-> vs,
                                      depth     |-> Len(c1.stack),
                                      created   |-> Len(c1.ops) - Len(c0.ops)])],
     vs |-> vs])

\* return self.stack.pop(), and the history entry of the whole pop call
\* that started in the simulator c0.
pop_return(c0, c1) ==
    Bind(c1.stack[Len(c1.stack)],                       LAMBDA vs :
    [c  |-> [c1 EXCEPT
                !.stack = SubSeq(@, 1, Len(@) - 1),
                !.poplog = Append(@, [underflow |-> c0.stack = <<>>,
                                      vs        |-> vs,
                                      depth     |-> Len(c1.stack) - 1,
                                      created   |-> Len(c1.ops) - Len(c0.ops)])],
     vs |-> vs])

\* BC2DDG.pop: [c |-> the simulator after, vs |-> the value returned]
pop(c) == pop_return(c, IF c.stack = <<>> THEN pop_incoming(c) ELSE c)

\* store that keeps an existing binding: the first write wins.
store_first_write_wins(c, varname, value) ==
    IF varname \in DOMAIN c.varmap THEN c
    ELSE [c EXCEPT !.varmap = MapSet(@, varname, value)]

\* BC2DDG.store
store(c, varname, value) == [c EXCEPT !.varmap = MapSet(@, varname, value)]

\* The body of `if varname not in self.varmap:` in BC2DDG.load.
load_incoming(c, varname) ==
    Bind(NewOp(c, "var.incoming", None),                LAMBDA n :
    Bind(add_output(n.c, n.op, varname, FALSE),         LAMBDA r :
    [r.c EXCEPT !.incoming_vars = MapSet(@, varname, r.vs),
                !.varmap = MapSet(@, varname, r.vs)]))

\* return self.varmap[varname]
load_return(c, varname) == [c |-> c, vs |-> c.varmap[varname]]

\* load that tests incoming_vars instead of varmap before it makes a
\* placeholder.
load_tests_incoming_vars(c, varname) ==
    load_return(IF varname \notin DOMAIN c.incoming_vars
                THEN load_incoming(c, varname) ELSE c, varname)

\* BC2DDG.load: [c |-> the simulator after, vs |-> the value returned]
load(c, varname) ==
    load_return(IF varname \notin DOMAIN c.varmap
                THEN load_incoming(c, varname) ELSE c, varname)

\* BC2DDG.replace_effect: `assert env.is_effect`, then the assignment.
replace_effect(c, env) ==
    IF env.is_effect
    THEN [c EXCEPT !.effect = env]
    ELSE [c EXCEPT !.raised = [type |-> "AssertionError"]]

(* ------------------------ translation rules --------------------------- *)

op_RESUME(c, inst) == c

op_LOAD_GLOBAL(c, inst) ==
    Bind(NewOp(c, "global", inst),                      LAMBDA n :
    Bind(add_input(n.c, n.op, "env", n.c.effect),       LAMBDA c1 :
    Bind(add_output(c1, n.op, "value", FALSE),          LAMBDA r1 :
    Bind(add_output(r1.c, n.op, "out", FALSE),          LAMBDA r2 :
    push(r2.c, r2.vs)))))

op_LOAD_CONST(c, inst) ==
    Bind(NewOp(c, "const", inst),                       LAMBDA n :
    Bind(add_output(n.c, n.op, "out", FALSE),           LAMBDA r :
    push(r.c, r.vs)))

op_STORE_FAST(c, inst) ==
    Bind(pop(c),                                        LAMBDA tos :
    Bind(NewOp(tos.c, "store", inst),                   LAMBDA n :
    Bind(add_input(n.c, n.op, "value", tos.vs),         LAMBDA c1 :
    Bind(add_output(c1, n.op, inst.argval, FALSE),      LAMBDA r :
    store(r.c, inst.argval, r.vs)))))

op_LOAD_FAST(c, inst) ==
    Bind(load(c, inst.argval),                          LAMBDA r :
    push(r.c, r.vs))

\* op_PRECALL that takes a value off the stack.
op_PRECALL_pops(c, inst) == pop(c).c

op_PRECALL(c, inst) == c

\* [self.pop() for _ in range(n)]: [c |-> the simulator after,
\* vals |-> the values in the order they were popped]
RECURSIVE pop_n(_, _)
pop_n(c, n) ==
    IF n = 0 THEN [c |-> c, vals |-> <<>>]
    ELSE Bind(pop(c),                                   LAMBDA r :
         Bind(pop_n(r.c, n - 1),                        LAMBDA rest :
         [c |-> rest.c, vals |-> <<r.vs>> \o rest.vals]))

\* reversed(list)
Reversed(l) == [i \in 1..Len(l) |-> l[Len(l) + 1 - i]]

\* for i, arg in enumerate(args): op.add_input(f"arg.{i}", arg),
\* from the (1-based) position k of args on.
RECURSIVE add_arg_inputs(_, _, _, _)
add_arg_inputs(c, op, args, k) ==
    IF k > Len(args) THEN c
    ELSE add_arg_inputs(add_input(c, op, ArgName(k - 1), args[k]),
                        op, args, k + 1)

\* op_CALL without the pop of the extra argument before the loop.
op_CALL_no_extra_pop(c, inst) ==
    Bind(inst.argval,                                   LAMBDA argc :
    Bind(pop(c),                                        LAMBDA callable :
    Bind(pop_n(callable.c, argc),                       LAMBDA more :
    Bind(Reversed(more.vals),                           LAMBDA args :
    Bind(NewOp(more.c, "call", inst),                   LAMBDA n :
    Bind(add_input(n.c, n.op, "env", n.c.effect),       LAMBDA c1 :
    Bind(add_input(c1, n.op, "callee", callable.vs),    LAMBDA c2 :
    Bind(add_arg_inputs(c2, n.op, args, 1),             LAMBDA c3 :
    Bind(add_output(c3, n.op, "env", TRUE),             LAMBDA r1 :
    Bind(replace_effect(r1.c, r1.vs),                   LAMBDA c4 :
    Bind(add_output(c4, n.op, "ret", FALSE),            LAMBDA r2 :
    push(r2.c, r2.vs))))))))))))

\* op_CALL that numbers the arguments in the order they were popped.
op_CALL_args_in_pop_order(c, inst) ==
    Bind(inst.argval,                                   LAMBDA argc :
    Bind(pop(c),                                        LAMBDA callable :
    Bind(pop(callable.c),                               LAMBDA arg0 :
    Bind(pop_n(arg0.c, argc),                           LAMBDA more :
    Bind(<<arg0.vs>> \o more.vals,                      LAMBDA args :
    Bind(NewOp(more.c, "call", inst),                   LAMBDA n :
    Bind(add_input(n.c, n.op, "env", n.c.effect),       LAMBDA c1 :
    Bind(add_input(c1, n.op, "callee", callable.vs),    LAMBDA c2 :
    Bind(add_arg_inputs(c2, n.op, args, 1),             LAMBDA c3 :
    Bind(add_output(c3, n.op, "env", TRUE),             LAMBDA r1 :
    Bind(replace_effect(r1.c, r1.vs),                   LAMBDA c4 :
    Bind(add_output(c4, n.op, "ret", FALSE),            LAMBDA r2 :
    push(r2.c, r2.vs)))))))))))))

op_CALL(c, inst) ==
    Bind(inst.argval,                                   LAMBDA argc :
    Bind(pop(c),                                        LAMBDA callable :
    Bind(pop(callable.c),                               LAMBDA arg0 :
    Bind(pop_n(arg0.c, argc),                           LAMBDA more :
    Bind(Reversed(<<arg0.vs>> \o more.vals),            LAMBDA args :
    Bind(NewOp(more.c, "call", inst),                   LAMBDA n :
    Bind(add_input(n.c, n.op, "env", n.c.effect),       LAMBDA c1 :
    Bind(add_input(c1, n.op, "callee", callable.vs),    LAMBDA c2 :
    Bind(add_arg_inputs(c2, n.op, args, 1),             LAMBDA c3 :
    Bind(add_output(c3, n.op, "env", TRUE),             LAMBDA r1 :
    Bind(replace_effect(r1.c, r1.vs),                   LAMBDA c4 :
    Bind(add_output(c4, n.op, "ret", FALSE),            LAMBDA r2 :
    push(r2.c, r2.vs)))))))))))))

op_GET_ITER(c, inst) ==
    Bind(pop(c),                                        LAMBDA tos :
    Bind(NewOp(tos.c, "getiter", inst),                 LAMBDA n :
    Bind(add_input(n.c, n.op, "obj", tos.vs),           LAMBDA c1 :
    Bind(add_output(c1, n.op, "iter", FALSE),           LAMBDA r :
    push(r.c, r.vs)))))

op_FOR_ITER(c, inst) ==
    Bind(pop(c),                                        LAMBDA tos :
    Bind(NewOp(tos.c, "foriter", inst),                 LAMBDA n :
    Bind(add_input(n.c, n.op, "iter", tos.vs),          LAMBDA c1 :
    Bind(add_output(c1, n.op, "indvar", FALSE),         LAMBDA r :
    push(r.c, r.vs)))))

\* op_BINARY_OP with the 'env' input bound after replace_effect.
op_BINARY_OP_env_bound_late(c, inst) ==
    Bind(pop(c),                                        LAMBDA rhs :
    Bind(pop(rhs.c),                                    LAMBDA lhs :
    Bind(NewOp(lhs.c, "binaryop", inst),                LAMBDA n :
    Bind(add_input(n.c, n.op, "lhs", lhs.vs),           LAMBDA c2 :
    Bind(add_input(c2, n.op, "rhs", rhs.vs),            LAMBDA c3 :
    Bind(add_output(c3, n.op, "env", TRUE),             LAMBDA r1 :
    Bind(replace_effect(r1.c, r1.vs),                   LAMBDA c4 :
    Bind(add_input(c4, n.op, "env", c4.effect),         LAMBDA c5 :
    Bind(add_output(c5, n.op, "out", FALSE),            LAMBDA r2 :
    push(r2.c, r2.vs))))))))))

\* op_BINARY_OP that takes the top of the stack for lhs.
op_BINARY_OP_operands_swapped(c, inst) ==
    Bind(pop(c),                                        LAMBDA lhs :
    Bind(pop(lhs.c),                                    LAMBDA rhs :
    Bind(NewOp(rhs.c, "binaryop", inst),                LAMBDA n :
    Bind(add_input(n.c, n.op, "env", n.c.effect),       LAMBDA c1 :
    Bind(add_input(c1, n.op, "lhs", lhs.vs),            LAMBDA c2 :
    Bind(add_input(c2, n.op, "rhs", rhs.vs),            LAMBDA c3 :
    Bind(add_output(c3, n.op, "env", TRUE),             LAMBDA r1 :
    Bind(replace_effect(r1.c, r1.vs),                   LAMBDA c4 :
    Bind(add_output(c4, n.op, "out", FALSE),            LAMBDA r2 :
    push(r2.c, r2.vs))))))))))

op_BINARY_OP(c, inst) ==
    Bind(pop(c),                                        LAMBDA rhs :
    Bind(pop(rhs.c),                                    LAMBDA lhs :
    Bind(NewOp(lhs.c, "binaryop", inst),                LAMBDA n :
    Bind(add_input(n.c, n.op, "env", n.c.effect),       LAMBDA c1 :
    Bind(add_input(c1, n.op, "lhs", lhs.vs),            LAMBDA c2 :
    Bind(add_input(c2, n.op, "rhs", rhs.vs),            LAMBDA c3 :
    Bind(add_output(c3, n.op, "env", TRUE),             LAMBDA r1 :
    Bind(replace_effect(r1.c, r1.vs),                   LAMBDA c4 :
    Bind(add_output(c4, n.op, "out", FALSE),            LAMBDA r2 :
    push(r2.c, r2.vs))))))))))

\* op_RETURN_VALUE that declares its env output without is_effect=True.
op_RETURN_VALUE_env_not_effect(c, inst) ==
    Bind(pop(c),                                        LAMBDA tos :
    Bind(NewOp(tos.c, "ret", inst),                     LAMBDA n :
    Bind(add_input(n.c, n.op, "env", n.c.effect),       LAMBDA c1 :
    Bind(add_input(c1, n.op, "retval", tos.vs),         LAMBDA c2 :
    Bind(add_output(c2, n.op, "env", FALSE),            LAMBDA r :
    replace_effect(r.c, r.vs))))))

\* op_RETURN_VALUE that leaves the current effect token as it is.
op_RETURN_VALUE_keeps_effect(c, inst) ==
    Bind(pop(c),                                        LAMBDA tos :
    Bind(NewOp(tos.c, "ret", inst),                     LAMBDA n :
    Bind(add_input(n.c, n.op, "env", n.c.effect),       LAMBDA c1 :
    Bind(add_input(c1, n.op, "retval", tos.vs),         LAMBDA c2 :
    Bind(add_output(c2, n.op, "env", TRUE),             LAMBDA r :
    r.c)))))

op_RETURN_VALUE(c, inst) ==
    Bind(pop(c),                                        LAMBDA tos :
    Bind(NewOp(tos.c, "ret", inst),                     LAMBDA n :
    Bind(add_input(n.c, n.op, "env", n.c.effect),       LAMBDA c1 :
    Bind(add_input(c1, n.op, "retval", tos.vs),         LAMBDA c2 :
    Bind(add_output(c2, n.op, "env", TRUE),             LAMBDA r :
    replace_effect(r.c, r.vs))))))

op_JUMP_BACKWARD(c, inst) == c

\* getattr(self, f"op_{inst.opname}") fails for an opcode without a method:
\* the AttributeError names the object's class and the attribute, nothing
\* else of the instruction.
AttributeError(inst) ==
    [type |-> "AttributeError", obj |-> "BC2DDG",
     name |-> "op_" \o inst.opname]

\* BC2DDG.convert: the simulator after inst, raised set when it raised.
convert(c, inst) ==
    IF inst.opname \notin RuleOpnames
    THEN [c EXCEPT !.raised = AttributeError(inst)]
    ELSE CASE inst.opname = "RESUME"        -> op_RESUME(c, inst)
           [] inst.opname = "LOAD_GLOBAL"   -> op_LOAD_GLOBAL(c, inst)
           [] inst.opname = "LOAD_CONST"    -> op_LOAD_CONST(c, inst)
           [] inst.opname = "STORE_FAST"    -> op_STORE_FAST(c, inst)
           [] inst.opname = "LOAD_FAST"     -> op_LOAD_FAST(c, inst)
           [] inst.opname = "PRECALL"       -> op_PRECALL(c, inst)
           [] inst.opname = "CALL"          -> op_CALL(c, inst)
           [] inst.opname = "GET_ITER"      -> op_GET_ITER(c, inst)
           [] inst.opname = "FOR_ITER"      -> op_FOR_ITER(c, inst)
           [] inst.opname = "BINARY_OP"     -> op_BINARY_OP(c, inst)
           [] inst.opname = "RETURN_VALUE"  -> op_RETURN_VALUE(c, inst)
           [] inst.opname = "JUMP_BACKWARD" -> op_JUMP_BACKWARD(c, inst)

(* --------------------------- convert_bc_to_ddg ------------------------ *)

\* DDGBlock(...) as convert_bc_to_ddg builds it from the block's metadata,
\* the effect token saved before the loop and the simulator after it.
\* ops is the heap the container's ValueStates point into.
\* DDGBlock built with the effect token read after the loop as in_effect.
DDGBlock_in_effect_after_loop(block, in_eff, c) ==
    [kind          |-> "DDGBlock",
     label         |-> block.label,
     jump_targets  |-> block.jump_targets,
     backedges     |-> block.backedges,
     in_effect     |-> c.effect,
     out_effect    |-> c.effect,
     in_stackvars  |-> c.incoming_stackvars,
     out_stackvars |-> c.stack,
     out_vars      |-> c.varmap,
     ops           |-> c.ops]

DDGBlock(block, in_eff, c) ==
    [kind          |-> "DDGBlock",
     label         |-> block.label,
     jump_targets  |-> block.jump_targets,
     backedges     |-> block.backedges,
     in_effect     |-> in_eff,
     out_effect    |-> c.effect,
     in_stackvars  |-> c.incoming_stackvars,
     out_stackvars |-> c.stack,
     out_vars      |-> c.varmap,
     ops           |-> c.ops]

\* PythonBytecodeBlock.get_instructions(bcmap): the instructions of the
\* table at the offsets of [begin, end), in order.
get_instructions(block, bcmap) ==
    [i \in 1..((block.end - block.begin) \div InstSize) |->
        bcmap[block.begin + InstSize * (i - 1)]]

\* for inst in instlist: converter.convert(inst), from the (1-based)
\* position k on; the loop ends at the first instruction that raises.
RECURSIVE convert_all(_, _, _)
convert_all(c, instlist, k) ==
    IF k > Len(instlist) \/ c.raised # None THEN c
    ELSE convert_all(convert(c, instlist[k]), instlist, k + 1)

\* convert_bc_to_ddg that returns the block built from the instructions
\* before the one that raised.
convert_bc_to_ddg_partial(block, bcmap) ==
    Bind(get_instructions(block, bcmap),                LAMBDA instlist :
    Bind(BC2DDG_init,                                   LAMBDA converter :
    Bind(convert_all(converter, instlist, 1),           LAMBDA c :
    [raised |-> None, blk |-> DDGBlock(block, converter.effect, c)])))

\* convert_bc_to_ddg as one call: [raised |-> the exception that left it or
\* None, blk |-> the DDGBlock returned (None when it raised)].
convert_bc_to_ddg(block, bcmap) ==
    Bind(get_instructions(block, bcmap),                LAMBDA instlist :
    Bind(BC2DDG_init,                                   LAMBDA converter :
    Bind(convert_all(converter, instlist, 1),           LAMBDA c :
    IF c.raised # None
    THEN [raised |-> c.raised, blk |-> None]
    ELSE [raised |-> None,
          blk    |-> DDGBlock(block, converter.effect, c)])))

(* ------------------------------ region tree --------------------------- *)

\* SCFG(): graph is the dict label -> block, in insertion order.
SCFG == [graph |-> <<>>]

\* SCFG.add_block: self.graph[block.label] = block
add_block(g, b) == [g EXCEPT !.graph = DictSet(@, b.label, b)]

\* A RegionBlock owning the nested tree subregion.
RegionBlock(label, jump_targets, backedges, kind, subregion) ==
    [kind |-> "RegionBlock", label |-> label,
     jump_targets |-> jump_targets, backedges |-> backedges,
     region_kind |-> kind, subregion |-> subregion]

\* A block that is neither a bytecode block nor a region.
BasicBlock(label, jump_targets, backedges) ==
    [kind |-> "BasicBlock", label |-> label,
     jump_targets |-> jump_targets, backedges |-> backedges]

\* replace that returns the block as it was.
replace_nothing(b, subregion) == b

\* dataclasses.replace(block, subregion=subregion)
replace_subregion(b, subregion) == [b EXCEPT !.subregion = subregion]

\* The SCFG holding the given blocks, in order.
RECURSIVE SCFGOf(_)
SCFGOf(blocks) ==
    IF blocks = <<>> THEN SCFG
    ELSE add_block(SCFGOf(SubSeq(blocks, 1, Len(blocks) - 1)),
                   blocks[Len(blocks)])

(* ------------------------------- state -------------------------------- *)

VARIABLES
    \* convert_bc_to_ddg on one block, instruction by instruction
    block,        \* the PythonBytecodeBlock being converted
    converter,    \* the BC2DDG instance
    in_effect,    \* the local in_effect, saved before the loop
    instlist,     \* the instructions the loop has taken so far
    history,      \* history: converter as it was before each converted instruction
    pc,           \* "loop", "done" (blk built), "raised", or "idle"
    blk,          \* the DDGBlock returned, None before
    err,          \* the exception that left convert_bc_to_ddg, None if none
    \* convert_scfg_to_dataflow on a region tree
    scfg,         \* the input tree
    bcmap,        \* the instruction table, offset -> instruction
    frames,       \* the active calls of convert_scfg_to_dataflow, outermost first
    dpc,          \* "run", "returned", "raised", or "idle"
    result,       \* the tree returned to the caller, None before
    derr,         \* the exception that left the outermost call, None if none
    \* several calls of convert_bc_to_ddg in flight at once
    sims,         \* block label -> the locals of the call converting that block
    \* pipeline.py: Pipeline
    lists,        \* the list objects; lists[1] is the class attribute Pipeline.order
    pipes,        \* the Pipeline instances, in creation order
    prun,         \* the call of run_pipeline in progress or last ended
    \* pipeline.py: PipelineEnvironment
    env,          \* the environment init_env returned, None before
    erun          \* the calls of env.pipeline(ast, env) made so far, the last one last

blockvars == <<block, converter, in_effect, instlist, history, pc, blk, err>>
drivervars == <<scfg, bcmap, frames, dpc, result, derr>>
jobvars == <<sims>>
pipevars == <<lists, pipes, prun>>
envvars == <<env, erun>>
vars == <<blockvars, drivervars, jobvars, pipevars, envvars>>

(* -------------------- one block, instruction by instruction ----------- *)

\* A PythonBytecodeBlock: the fields convert_bc_to_ddg reads, and the byte
\* range [begin, end) that get_instructions walks.
PythonBytecodeBlock(label, jump_targets, backedges, begin, end) ==
    [kind |-> "PythonBytecodeBlock", label |-> label,
     jump_targets |-> jump_targets, backedges |-> backedges,
     begin |-> begin, end |-> end]

\* The block Spec converts: its instructions are drawn one at a time, as the
\* loop of convert_bc_to_ddg reaches them, up to MaxInsts of them.
SpecBlock == PythonBytecodeBlock("0", <<"1">>, <<>>, 0, InstSize * MaxInsts)

\* No concurrent conversion is under way.
JobsIdle == sims = <<>>

\* No Pipeline exists and none is run.
PipelineIdle ==
    /\ lists = <<>>
    /\ pipes = <<>>
    /\ prun = None

\* No PipelineEnvironment exists and none is run.
EnvIdle ==
    /\ env = None
    /\ erun = None

DriverIdle ==
    /\ scfg = <<>>
    /\ bcmap = <<>>
    /\ frames = <<>>
    /\ dpc = "idle"
    /\ result = None
    /\ derr = None

\* convert_bc_to_ddg up to the loop: a fresh simulator, its effect saved.
Init ==
    /\ block = SpecBlock
    /\ converter = BC2DDG_init
    /\ in_effect = BC2DDG_init.effect
    /\ instlist = <<>>
    /\ history = <<>>
    /\ pc = "loop"
    /\ blk = None
    /\ err = None
    /\ DriverIdle
    /\ JobsIdle
    /\ PipelineIdle
    /\ EnvIdle

\* The offset of the next instruction of the block.
NextOffset == block.begin + InstSize * Len(instlist)

\* What the loop does with the simulator c2 that converter.convert(inst)
\* left: go on, or let the exception leave convert_bc_to_ddg.
AfterConvert(c2) ==
    IF c2.raised = None
    THEN /\ converter' = c2
         /\ history' = Append(history, converter)
         /\ UNCHANGED <<pc, err>>
    ELSE /\ pc' = "raised"
         /\ err' = c2.raised
         /\ UNCHANGED <<converter, history>>

\* One turn of `for inst in instlist: converter.convert(inst)`.
ConvertInst(inst) ==
    /\ pc = "loop"
    /\ NextOffset < block.end
    /\ instlist' = Append(instlist, inst)
    /\ AfterConvert(convert(converter, inst))
    /\ UNCHANGED <<block, in_effect, blk, drivervars, jobvars, pipevars, envvars>>

\* The loop takes an instruction of the given opcode.  One action per opcode
\* follows: convert_<opname> is convert() dispatching to op_<opname>.
ConvertOpcode(opname) ==
    \E argval \in ArgvalsOf(opname) :
        ConvertInst(Instruction(opname, argval, NextOffset))

convert_RESUME ==
    pc = "loop" /\ ConvertOpcode("RESUME")
convert_LOAD_GLOBAL ==
    pc = "loop" /\ ConvertOpcode("LOAD_GLOBAL")
convert_LOAD_CONST ==
    pc = "loop" /\ ConvertOpcode("LOAD_CONST")
convert_STORE_FAST ==
    pc = "loop" /\ ConvertOpcode("STORE_FAST")
convert_LOAD_FAST ==
    pc = "loop" /\ ConvertOpcode("LOAD_FAST")
convert_PRECALL ==
    pc = "loop" /\ ConvertOpcode("PRECALL")
convert_CALL ==
    pc = "loop" /\ ConvertOpcode("CALL")
convert_GET_ITER ==
    pc = "loop" /\ ConvertOpcode("GET_ITER")
convert_FOR_ITER ==
    pc = "loop" /\ ConvertOpcode("FOR_ITER")
convert_BINARY_OP ==
    pc = "loop" /\ ConvertOpcode("BINARY_OP")
convert_RETURN_VALUE ==
    pc = "loop" /\ ConvertOpcode("RETURN_VALUE")
convert_JUMP_BACKWARD ==
    pc = "loop" /\ ConvertOpcode("JUMP_BACKWARD")
convert_no_rule ==
    pc = "loop" /\ \E opname \in NoRuleOpnames : ConvertOpcode(opname)

\* The instruction list is exhausted: the DDGBlock is built and returned.
build_DDGBlock ==
    /\ pc = "loop"
    /\ blk' = DDGBlock(block, in_effect, converter)
    /\ pc' = "done"
    /\ UNCHANGED <<block, converter, in_effect, instlist, history, err,
                   drivervars, jobvars, pipevars, envvars>>

Next ==
    \/ convert_RESUME
    \/ convert_LOAD_GLOBAL
    \/ convert_LOAD_CONST
    \/ convert_STORE_FAST
    \/ convert_LOAD_FAST
    \/ convert_PRECALL
    \/ convert_CALL
    \/ convert_GET_ITER
    \/ convert_FOR_ITER
    \/ convert_BINARY_OP
    \/ convert_RETURN_VALUE
    \/ convert_JUMP_BACKWARD
    \/ convert_no_rule
    \/ build_DDGBlock

Spec == Init /\ [][Next]_vars

(* ----------------------- convert_scfg_to_dataflow --------------------- *)

\* The (opname, argval) pairs the instruction tables of DriverSpec are
\* made of.
TableCodes ==
    { [opname |-> "LOAD_CONST",   argval |-> None],
      [opname |-> "STORE_FAST",   argval |-> "x"],
      [opname |-> "BINARY_OP",    argval |-> None],
      [opname |-> "RETURN_VALUE", argval |-> None],
      [opname |-> "NOP",          argval |-> None] }

TableOffsets == { InstSize * i : i \in 0..(TableLen - 1) }

\* bcmap = {inst.offset: inst for inst in byteflow.bc}, for every table of
\* TableLen instructions.
Tables ==
    { [o \in TableOffsets |-> Instruction(f[o].opname, f[o].argval, o)] :
        f \in [TableOffsets -> TableCodes] }

TableMid == InstSize * 2
TableEnd == InstSize * TableLen

\* The region trees DriverSpec converts: a single leaf; a leaf, a loop
\* region and a plain block side by side; regions nested two deep; a
\* region whose sub-tree is empty.
Trees ==
    { SCFGOf(<< PythonBytecodeBlock("0", <<>>, <<>>, 0, TableEnd) >>),
      SCFGOf(<< PythonBytecodeBlock("0", <<"1">>, <<>>, 0, TableMid),
                RegionBlock("1", <<"4">>, <<>>, "loop",
                    SCFGOf(<< PythonBytecodeBlock("2", <<"3">>, <<"2">>,
                                                  TableMid, TableEnd),
                              BasicBlock("3", <<"4">>, <<>>) >>)),
                BasicBlock("4", <<>>, <<>>) >>),
      SCFGOf(<< RegionBlock("0", <<>>, <<>>, "branch",
                    SCFGOf(<< RegionBlock("1", <<"3">>, <<>>, "head",
                                  SCFGOf(<< PythonBytecodeBlock("2", <<"3">>,
                                                <<>>, 0, TableMid) >>)),
                              PythonBytecodeBlock("3", <<>>, <<>>,
                                                  TableMid, TableEnd) >>)) >>),
      SCFGOf(<< BasicBlock("0", <<"1">>, <<>>),
                RegionBlock("1", <<>>, <<>>, "tail", SCFGOf(<<>>)),
                PythonBytecodeBlock("2", <<>>, <<>>, 0, InstSize) >>) }

BlockIdle ==
    /\ block = SpecBlock
    /\ converter = BC2DDG_init
    /\ in_effect = BC2DDG_init.effect
    /\ instlist = <<>>
    /\ history = <<>>
    /\ pc = "idle"
    /\ blk = None
    /\ err = None

\* A call of convert_scfg_to_dataflow(g, bcmap) at its first line:
\* items is scfg.graph.items(), i the position of the loop in it, rvsdg the
\* SCFG being filled.
Frame(g) == [items |-> g.graph, i |-> 1, rvsdg |-> SCFG]

\* convert_scfg_to_dataflow(scfg, bcmap) is called.
DriverInit ==
    /\ scfg \in Trees
    /\ bcmap \in Tables
    /\ frames = << Frame(scfg) >>
    /\ dpc = "run"
    /\ result = None
    /\ derr = None
    /\ BlockIdle
    /\ JobsIdle
    /\ PipelineIdle
    /\ EnvIdle

\* The innermost active call, and the block its loop is at.
TopFrame == frames[Len(frames)]
LoopAtBlock == dpc = "run" /\ TopFrame.i <= Len(TopFrame.items)
CurBlock == TopFrame.items[TopFrame.i].val

\* rvsdg.add_block(b) in the innermost call, and its loop moves on.
AddBlockAndAdvance(b) ==
    frames' = [frames EXCEPT ![Len(frames)] =
                  [@ EXCEPT !.rvsdg = add_block(@, b), !.i = @ + 1]]

\* What the loop does with the outcome r of convert_bc_to_ddg: add the
\* DDGBlock, or let the exception leave every active call.
AfterConvertBlock(r) ==
    IF r.raised = None
    THEN /\ AddBlockAndAdvance(r.blk)
         /\ UNCHANGED <<dpc, result, derr>>
    ELSE /\ frames' = <<>>
         /\ dpc' = "raised"
         /\ derr' = r.raised
         /\ UNCHANGED result

\* isinstance(block, PythonBytecodeBlock)
driver_bytecode_block ==
    /\ LoopAtBlock
    /\ CurBlock.kind = "PythonBytecodeBlock"
    /\ AfterConvertBlock(convert_bc_to_ddg(CurBlock, bcmap))
    /\ UNCHANGED <<scfg, bcmap, blockvars, jobvars, pipevars, envvars>>

\* isinstance(block, RegionBlock): the recursive call starts.
driver_region_call ==
    /\ LoopAtBlock
    /\ CurBlock.kind = "RegionBlock"
    /\ frames' = Append(frames, Frame(CurBlock.subregion))
    /\ UNCHANGED <<scfg, bcmap, dpc, result, derr, blockvars, jobvars, pipevars, envvars>>

\* The recursive call returns its rvsdg: the caller adds
\* replace(block, subregion=subregion).
driver_region_return ==
    /\ dpc = "run"
    /\ Len(frames) > 1
    /\ TopFrame.i > Len(TopFrame.items)
    /\ frames' = [k \in 1..(Len(frames) - 1) |->
                    IF k < Len(frames) - 1 THEN frames[k]
                    ELSE [frames[k] EXCEPT
                            !.rvsdg = add_block(@,
                                replace_subregion(frames[k].items[frames[k].i].val,
                                                  TopFrame.rvsdg)),
                            !.i = @ + 1]]
    /\ UNCHANGED <<scfg, bcmap, dpc, result, derr, blockvars, jobvars, pipevars, envvars>>

\* else: rvsdg.add_block(block)
driver_other_block ==
    /\ LoopAtBlock
    /\ CurBlock.kind \notin {"PythonBytecodeBlock", "RegionBlock"}
    /\ AddBlockAndAdvance(CurBlock)
    /\ UNCHANGED <<scfg, bcmap, dpc, result, derr, blockvars, jobvars, pipevars, envvars>>

\* The outermost call returns its rvsdg to the caller.
driver_return ==
    /\ dpc = "run"
    /\ Len(frames) = 1
    /\ TopFrame.i > Len(TopFrame.items)
    /\ result' = TopFrame.rvsdg
    /\ dpc' = "returned"
    /\ frames' = <<>>
    /\ UNCHANGED <<scfg, bcmap, derr, blockvars, jobvars, pipevars, envvars>>

DriverNext ==
    \/ driver_bytecode_block
    \/ driver_region_call
    \/ driver_region_return
    \/ driver_other_block
    \/ driver_return

DriverSpec == DriverInit /\ [][DriverNext]_vars

(* ============================ properties ============================== *)

\* The simulator before and after the k-th converted instruction.
Before(k) == history[k]
After(k) == IF k < Len(history) THEN history[k + 1] ELSE converter

\* The positions of the instructions converted so far.
Converted == 1..Len(history)

\* The values of a dict.
DictVals(d) == { d[i].val : i \in 1..Len(d) }

\* The Ops of a heap that have an input named `name`.
OpsWithInput(ops, name) == { i \in 1..Len(ops) : name \in DictKeys(ops[i].inputs) }

(* ------------------------------- C1 ----------------------------------- *)

\* C1: effect linearity.  In every simulator state, no effect token is bound
\* as the 'env' input of more than one Op of the block.
C1_EffectLinearity ==
    \A i, j \in OpsWithInput(converter.ops, "env") :
        i # j => DictGet(converter.ops[i].inputs, "env")
                   # DictGet(converter.ops[j].inputs, "env")

(* ------------------------------- C3 ----------------------------------- *)

\* C3: the exception that leaves the conversion for an opcode without a rule
\* is an 'unsupported instruction' error that carries the opcode name and
\* the byte offset of the offending instruction.
C3_UnsupportedInstructionError ==
    pc = "raised" =>
        /\ err.type = "UnsupportedInstruction"
        /\ {"opname", "offset"} \subseteq DOMAIN err
        /\ err.opname = instlist[Len(instlist)].opname
        /\ err.offset = instlist[Len(instlist)].offset

(* ------------------------------- C4 ----------------------------------- *)

\* The number of pop calls on an empty stack among the first n pop calls.
Underflows(c, n) == Cardinality({ j \in 1..n : c.poplog[j].underflow })

\* The Ops of a heap with the given opname.
OpsNamed(ops, opname) == { i \in 1..Len(ops) : ops[i].opname = opname }

\* Placeholder completeness of the simulator c: K underflows left exactly K
\* incoming stack slots; slot i is the single output, named stack[i], of its
\* own stack.incoming Op without instruction; every pop on an empty stack
\* returned the placeholder it made and left the stack empty; no other pop
\* made an Op.
PlaceholdersComplete(c) ==
    LET K == Underflows(c, Len(c.poplog))
    IN  /\ Len(c.incoming_stackvars) = K
        /\ Cardinality(OpsNamed(c.ops, "stack.incoming")) = K
        /\ \A i \in 1..K :
              LET vs == c.incoming_stackvars[i]
              IN  /\ vs.name = "stack[" \o ToString(i - 1) \o "]"
                  /\ vs.out_index = 0
                  /\ ~vs.is_effect
                  /\ c.ops[vs.parent].opname = "stack.incoming"
                  /\ c.ops[vs.parent].bc_inst = None
                  /\ c.ops[vs.parent].inputs = <<>>
                  /\ c.ops[vs.parent].outputs = <<[key |-> vs.name, val |-> vs]>>
        /\ \A i, j \in 1..K :
              i # j => c.incoming_stackvars[i].parent
                         # c.incoming_stackvars[j].parent
        /\ \A n \in 1..Len(c.poplog) :
              IF c.poplog[n].underflow
              THEN /\ c.poplog[n].created = 1
                   /\ c.poplog[n].depth = 0
                   /\ c.poplog[n].vs = c.incoming_stackvars[Underflows(c, n)]
              ELSE c.poplog[n].created = 0

\* C4: placeholder completeness holds in every simulator state, and the
\* container's in_stackvars is the tuple of the K placeholders.
C4_PlaceholderCompleteness ==
    /\ PlaceholdersComplete(converter)
    /\ pc = "done" =>
          /\ Len(blk.in_stackvars) = Underflows(converter, Len(converter.poplog))
          /\ blk.in_stackvars = converter.incoming_stackvars

\* A finished block with two underflows and a pop that found a value.
C4_Witness ==
    /\ pc = "done"
    /\ Len(blk.in_stackvars) >= 2
    /\ \E n \in 1..Len(converter.poplog) : ~converter.poplog[n].underflow

(* ------------------------------- C5 ----------------------------------- *)

\* The values of a sequence, and of an unordered dict.
SeqVals(q) == { q[i] : i \in 1..Len(q) }
MapVals(f) == { f[n] : n \in DOMAIN f }

\* The ValueStates a container holds directly.
ContainerRoots(b) ==
    {b.in_effect, b.out_effect} \cup SeqVals(b.in_stackvars)
        \cup SeqVals(b.out_stackvars) \cup MapVals(b.out_vars)

\* S and everything reached from it through the inputs of producing Ops.
RECURSIVE InputClosure(_, _)
InputClosure(ops, S) ==
    LET T == S \cup UNION { DictVals(ops[vs.parent].inputs) : vs \in S }
    IN  IF T = S THEN S ELSE InputClosure(ops, T)

\* The ValueStates reachable from a container.
Reachable(b) == InputClosure(b.ops, ContainerRoots(b))

\* Exactly one Op of the heap has vs in its output map; it is the parent of
\* vs, holds it under the name of vs, at the position out_index.
SingleProducer(ops, vs) ==
    /\ { i \in 1..Len(ops) : vs \in DictVals(ops[i].outputs) } = {vs.parent}
    /\ vs.name \in DictKeys(ops[vs.parent].outputs)
    /\ DictGet(ops[vs.parent].outputs, vs.name) = vs
    /\ vs.out_index + 1 <= Len(ops[vs.parent].outputs)
    /\ ops[vs.parent].outputs[vs.out_index + 1] = [key |-> vs.name, val |-> vs]

\* C5: single producer.  Every ValueState reachable from a finished
\* container is an output of exactly one Op, its parent, under its own name
\* and at its own out_index.
C5_SingleProducer ==
    pc = "done" => \A vs \in Reachable(blk) : SingleProducer(blk.ops, vs)

\* A finished block that stored to x a value that is the second output of
\* its Op, the store's output being reachable through out_vars.
C5_Witness ==
    /\ pc = "done"
    /\ "x" \in DOMAIN blk.out_vars
    /\ blk.ops[blk.out_vars["x"].parent].opname = "store"
    /\ \E vs \in Reachable(blk) : vs.out_index = 1

(* ------------------------------- C6 ----------------------------------- *)

\* C6: acyclicity.  Every input of every Op is an output of an Op created
\* strictly earlier in the simulation, so the Op graph has no cycle.
C6_Acyclic ==
    \A i \in 1..Len(converter.ops) :
        \A vs \in DictVals(converter.ops[i].inputs) :
            /\ vs.parent < i
            /\ vs \in DictVals(converter.ops[vs.parent].outputs)

\* An Op consumes the output of an Op that itself consumes an output, next
\* to a node that consumes the effect token made by another node.
C6_Witness ==
    /\ \E i \in 1..Len(converter.ops) :
          \E vs \in DictVals(converter.ops[i].inputs) :
              ~vs.is_effect /\ converter.ops[vs.parent].inputs # <<>>
    /\ \E i \in OpsWithInput(converter.ops, "env") :
          DictGet(converter.ops[i].inputs, "env").parent # 1

(* ------------------------------- C7 ----------------------------------- *)

\* The k-th converted instruction is the given opcode on the given name.
IsVarInst(k, opname, name) ==
    instlist[k].opname = opname /\ instlist[k].argval = name

\* No STORE_FAST of the name strictly between positions i and j.
NoStoreBetween(i, j, name) ==
    \A m \in (i + 1)..(j - 1) : ~IsVarInst(m, "STORE_FAST", name)

\* The var.incoming Ops of a heap made for the name.
IncomingVarOps(ops, name) ==
    { i \in OpsNamed(ops, "var.incoming") : ops[i].outputs[1].key = name }

\* The name is read by a LOAD_FAST before any STORE_FAST to it.
ReadBeforeStore(name) ==
    \E j \in Converted :
        /\ IsVarInst(j, "LOAD_FAST", name)
        /\ NoStoreBetween(0, j, name)

\* C7: idempotence of load.  In every simulator state a second load of a
\* name returns the value of the first and creates no Op; two LOAD_FAST of a
\* name with no STORE_FAST of it between them push the same ValueState; a
\* name has at most one var.incoming Op, and has one exactly when it is
\* read before any store to it.
C7_LoadIdempotent ==
    /\ \A name \in VarNames :
          /\ load(load(converter, name).c, name).vs = load(converter, name).vs
          /\ Len(load(load(converter, name).c, name).c.ops)
                = Len(load(converter, name).c.ops)
          /\ Cardinality(IncomingVarOps(converter.ops, name)) <= 1
          /\ IncomingVarOps(converter.ops, name) # {} <=> ReadBeforeStore(name)
    /\ \A i, j \in Converted : \A name \in VarNames :
          ( /\ i < j
            /\ IsVarInst(i, "LOAD_FAST", name)
            /\ IsVarInst(j, "LOAD_FAST", name)
            /\ NoStoreBetween(i, j, name) )
          => After(i).stack[Len(After(i).stack)]
               = After(j).stack[Len(After(j).stack)]

\* x is loaded unbound, y is stored, x is loaded again.
C7_Witness ==
    /\ Len(history) = 3
    /\ IsVarInst(1, "LOAD_FAST", "x")
    /\ IsVarInst(2, "STORE_FAST", "y")
    /\ IsVarInst(3, "LOAD_FAST", "x")
    /\ After(3).stack = <<After(1).stack[1]>>
    /\ Cardinality(OpsNamed(converter.ops, "var.incoming")) = 1

(* ------------------------------- C8 ----------------------------------- *)

\* The output declared by the store node of the k-th instruction (a
\* STORE_FAST): the single output of the Op made for that instruction.
StoreOutput(ops, k) ==
    LET op == CHOOSE i \in OpsNamed(ops, "store") : ops[i].bc_inst = instlist[k]
    IN  ops[op].outputs[1].val

\* i is the position of the most recent STORE_FAST of the name before j.
LastStoreBefore(i, j, name) ==
    /\ i < j
    /\ IsVarInst(i, "STORE_FAST", name)
    /\ NoStoreBetween(i, j, name)

\* C8: last write wins.  A LOAD_FAST of a name pushes exactly the output of
\* the node of the most recent earlier STORE_FAST of that name and creates
\* no Op; the container's out_vars binds a stored name to the output of the
\* most recent store to it.
C8_LastWriteWins ==
    /\ \A i, j \in Converted : \A name \in VarNames :
          (IsVarInst(j, "LOAD_FAST", name) /\ LastStoreBefore(i, j, name))
          => /\ After(j).stack[Len(After(j).stack)]
                  = StoreOutput(converter.ops, i)
             /\ After(j).ops = Before(j).ops
    /\ pc = "done" =>
          \A i \in Converted : \A name \in VarNames :
              LastStoreBefore(i, Len(history) + 1, name)
              => /\ name \in DOMAIN blk.out_vars
                 /\ blk.out_vars[name] = StoreOutput(blk.ops, i)

\* x is stored twice, then loaded, and the block is finished.
C8_Witness ==
    /\ pc = "done"
    /\ Len(history) = 3
    /\ IsVarInst(1, "STORE_FAST", "x")
    /\ IsVarInst(2, "STORE_FAST", "x")
    /\ IsVarInst(3, "LOAD_FAST", "x")

(* ------------------------------- C9 ----------------------------------- *)

\* The k-th converted instruction is a CALL with the given argc.
IsCall(k, argc) == instlist[k].opname = "CALL" /\ instlist[k].argval = argc

\* The Op made for the k-th instruction.
OpOfInst(ops, k) == CHOOSE i \in 1..Len(ops) : ops[i].bc_inst = instlist[k]

\* The input names of a dict, in order.
DictKeySeq(d) == [i \in 1..Len(d) |-> d[i].key]

\* What translating the k-th instruction, a CALL with argc = 2, does apart
\* from the names of the node's inputs: exactly 4 pop calls; one 'call' Op
\* beside the placeholders of the underflows; the node's new effect output
\* is the current effect token; its 'ret' output is pushed on what the 4
\* pops left of the stack.
Call2Effects(k) ==
    LET b   == Before(k)
        a   == After(k)
        op  == OpOfInst(a.ops, k)
        new == (Len(b.ops) + 1)..Len(a.ops)
    IN  /\ Len(a.poplog) = Len(b.poplog) + 4
        /\ a.npush = b.npush + 1
        /\ op = Len(a.ops)
        /\ a.ops[op].opname = "call"
        /\ \A i \in new \ {op} : a.ops[i].opname = "stack.incoming"
        /\ DictKeySeq(a.ops[op].outputs) = <<"env", "ret">>
        /\ a.effect = DictGet(a.ops[op].outputs, "env")
        /\ a.effect.is_effect
        /\ a.effect # b.effect
        /\ DictGet(a.ops[op].inputs, "env") = b.effect
        /\ DictGet(a.ops[op].inputs, "callee") = a.poplog[Len(b.poplog) + 1].vs
        /\ a.stack = SubSeq(b.stack, 1, Len(b.stack) - 4)
                        \o <<DictGet(a.ops[op].outputs, "ret")>>

\* C9 as stated: a CALL with argc = 2 pops exactly 4 values and makes a
\* 'call' node whose inputs are named exactly env, callee, arg.0 and arg.1;
\* its new effect output becomes the current effect token and its 'ret'
\* output is pushed.
C9_Call2_FourInputs ==
    \A k \in Converted :
        IsCall(k, 2) =>
            /\ Call2Effects(k)
            /\ DictKeySeq(After(k).ops[OpOfInst(After(k).ops, k)].inputs)
                 = <<"env", "callee", "arg.0", "arg.1">>

\* C9 amended: a CALL with argc = 2 pops exactly 4 values, the callee and
\* three argument values, and makes a 'call' node whose inputs are named
\* exactly env, callee, arg.0, arg.1 and arg.2, the arguments being the
\* three values popped after the callee; its new effect output becomes the
\* current effect token and its 'ret' output is pushed.
C9_Call2_FiveInputs ==
    \A k \in Converted :
        IsCall(k, 2) =>
            LET a  == After(k)
                op == OpOfInst(a.ops, k)
                p  == Len(Before(k).poplog)
            IN  /\ Call2Effects(k)
                /\ DictKeySeq(a.ops[op].inputs)
                     = <<"env", "callee", "arg.0", "arg.1", "arg.2">>
                /\ { DictGet(a.ops[op].inputs, n) : n \in {"arg.0", "arg.1", "arg.2"} }
                     = { a.poplog[p + m].vs : m \in 2..4 }

\* A CALL with argc = 2 was translated on a stack that held two values, so
\* that two of its four pops made placeholders.
C9_Witness ==
    /\ Len(history) = 3
    /\ IsCall(3, 2)
    /\ Len(Before(3).stack) = 2
    /\ Len(converter.incoming_stackvars) = 2
    /\ Len(converter.stack) = 1

(* ------------------------------- C2 ----------------------------------- *)

\* The bytecode block has an instruction whose opcode has no rule.
BlockHasNoRule(b) ==
    \E o \in TableOffsets :
        /\ b.begin <= o
        /\ o < b.end
        /\ bcmap[o].opname \notin RuleOpnames

\* Some leaf bytecode block of the tree, at any depth, has an instruction
\* whose opcode has no rule.
RECURSIVE TreeHasNoRule(_)
TreeHasNoRule(g) ==
    \E i \in 1..Len(g.graph) :
        LET b == g.graph[i].val
        IN  \/ b.kind = "PythonBytecodeBlock" /\ BlockHasNoRule(b)
            \/ b.kind = "RegionBlock" /\ TreeHasNoRule(b.subregion)

\* The bytecode blocks of an input tree, at any depth.
RECURSIVE Leaves(_)
Leaves(g) ==
    UNION { LET b == g.graph[i].val
            IN  IF b.kind = "PythonBytecodeBlock" THEN {b}
                ELSE IF b.kind = "RegionBlock" THEN Leaves(b.subregion)
                ELSE {}
            : i \in 1..Len(g.graph) }

\* The labels of the DDGBlocks of a converted tree, at any depth.
RECURSIVE DDGLabels(_)
DDGLabels(g) ==
    UNION { LET b == g.graph[i].val
            IN  IF b.kind = "DDGBlock" THEN {b.label}
                ELSE IF b.kind = "RegionBlock" THEN DDGLabels(b.subregion)
                ELSE {}
            : i \in 1..Len(g.graph) }

\* The labels of the DDGBlocks that exist: in the tree returned, or in the
\* trees the active calls are filling.
DDGLabelsProduced ==
    (IF result = None THEN {} ELSE DDGLabels(result))
        \cup UNION { DDGLabels(frames[k].rvsdg) : k \in 1..Len(frames) }

\* C2: an opcode without a rule aborts the whole build.  No DDGBlock ever
\* exists for a block that holds such an instruction; a call that raised
\* returned nothing and left no partly converted tree; a tree is returned
\* only by a call that ended normally, and only for a tree without such an
\* instruction.
C2_NoRuleAbortsBuild ==
    /\ \A b \in Leaves(scfg) :
          BlockHasNoRule(b) => b.label \notin DDGLabelsProduced
    /\ dpc = "raised" => result = None /\ frames = <<>> /\ derr # None
    /\ result # None => dpc = "returned"
    /\ dpc = "returned" => ~TreeHasNoRule(scfg)

\* The build was aborted by a leaf nested two regions deep whose second
\* instruction has no rule, the first one having a rule.
C2_Witness ==
    /\ dpc = "raised"
    /\ result = None
    /\ scfg.graph[1].val.kind = "RegionBlock"
    /\ scfg.graph[1].val.subregion.graph[1].val.kind = "RegionBlock"
    /\ bcmap[0].opname = "LOAD_CONST"
    /\ bcmap[InstSize].opname = "NOP"

(* ------------------------------- C10 ---------------------------------- *)

\* The block b of the input tree and the block d at its place in the tree
\* returned: a bytecode block became a DDGBlock with the same label, jump
\* targets and back-edges; a region kept every field but subregion, which
\* is the conversion of its sub-tree; any other block is unchanged.
RECURSIVE BlockConverted(_, _)
TreeConverted(g, h) ==
    /\ Len(h.graph) = Len(g.graph)
    /\ \A i \in 1..Len(g.graph) :
          /\ h.graph[i].key = g.graph[i].key
          /\ BlockConverted(g.graph[i].val, h.graph[i].val)
BlockConverted(b, d) ==
    IF b.kind = "PythonBytecodeBlock"
    THEN /\ d.kind = "DDGBlock"
         /\ d.label = b.label
         /\ d.jump_targets = b.jump_targets
         /\ d.backedges = b.backedges
    ELSE IF b.kind = "RegionBlock"
    THEN /\ d.kind = "RegionBlock"
         /\ [d EXCEPT !.subregion = None] = [b EXCEPT !.subregion = None]
         /\ TreeConverted(b.subregion, d.subregion)
    ELSE d = b

\* C10: driver isomorphism.  The tree returned has the blocks of the input
\* tree, label by label and level by level, each converted as its kind
\* requires.
C10_DriverIsomorphism ==
    dpc = "returned" => TreeConverted(scfg, result)

\* A tree with a leaf, a region holding a leaf and a plain block, and a
\* plain block was converted and returned.
C10_Witness ==
    /\ dpc = "returned"
    /\ Len(scfg.graph) = 3
    /\ scfg.graph[2].val.kind = "RegionBlock"
    /\ Len(scfg.graph[2].val.subregion.graph) = 2
    /\ result.graph[1].val.kind = "DDGBlock"
    /\ result.graph[2].val.subregion.graph[1].val.kind = "DDGBlock"
    /\ result.graph[3].val.kind = "BasicBlock"

(* ------------------------------- C11 ---------------------------------- *)

\* The locals of one call of convert_bc_to_ddg(b, bcmap) that has not yet
\* run its first line.
Job(b) ==
    [block |-> b, pc |-> "init", instlist |-> <<>>, n |-> 0,
     converter |-> None, in_effect |-> None, blk |-> None, err |-> None]

\* The instance attributes self.stack, self.effect, ... assigned in
\* __init__ belong to the one simulator: a step of the call for block l
\* writes the locals and the simulator of that call and of no other.
\* The simulators share their operand stack, as a list held by the class
\* would be shared.
StoreSim_shared_stack(s, l, j) ==
    [k \in DOMAIN s |->
        IF k = l THEN j
        ELSE IF s[k].pc = "loop" /\ j.pc = "loop"
        THEN [s[k] EXCEPT !.converter.stack = j.converter.stack]
        ELSE s[k]]

StoreSim(s, l, j) == [s EXCEPT ![l] = j]

\* The leaf blocks of a tree are each handed to a call of their own; the
\* calls take their steps in any order.
InterleavedInit ==
    /\ scfg \in Trees
    /\ bcmap \in Tables
    /\ sims = [l \in { b.label : b \in Leaves(scfg) } |->
                 Job(CHOOSE b \in Leaves(scfg) : b.label = l)]
    /\ frames = <<>>
    /\ dpc = "idle"
    /\ result = None
    /\ derr = None
    /\ BlockIdle
    /\ PipelineIdle
    /\ EnvIdle

\* instlist = block.get_instructions(bcmap); converter = BC2DDG();
\* in_effect = converter.effect
job_start ==
    \E l \in DOMAIN sims :
        /\ sims[l].pc = "init"
        /\ sims' = StoreSim(sims, l,
                     [sims[l] EXCEPT
                        !.pc = "loop",
                        !.instlist = get_instructions(sims[l].block, bcmap),
                        !.converter = BC2DDG_init,
                        !.in_effect = BC2DDG_init.effect])
        /\ UNCHANGED <<blockvars, drivervars, pipevars, envvars>>

\* The job j after converter.convert(inst) left the simulator c2.
JobAfterConvert(j, c2) ==
    IF c2.raised = None
    THEN [j EXCEPT !.converter = c2, !.n = @ + 1]
    ELSE [j EXCEPT !.pc = "raised", !.err = c2.raised, !.n = @ + 1]

\* One turn of the loop of one call.
job_convert ==
    \E l \in DOMAIN sims :
        /\ sims[l].pc = "loop"
        /\ sims[l].n < Len(sims[l].instlist)
        /\ sims' = StoreSim(sims, l,
                     JobAfterConvert(sims[l],
                        convert(sims[l].converter,
                                sims[l].instlist[sims[l].n + 1])))
        /\ UNCHANGED <<blockvars, drivervars, pipevars, envvars>>

\* The loop of one call is over: its DDGBlock is built.
job_build ==
    \E l \in DOMAIN sims :
        /\ sims[l].pc = "loop"
        /\ sims[l].n = Len(sims[l].instlist)
        /\ sims' = StoreSim(sims, l,
                     [sims[l] EXCEPT
                        !.pc = "done",
                        !.blk = DDGBlock(sims[l].block, sims[l].in_effect,
                                         sims[l].converter)])
        /\ UNCHANGED <<blockvars, drivervars, pipevars, envvars>>

InterleavedNext ==
    \/ job_start
    \/ job_convert
    \/ job_build

InterleavedSpec == InterleavedInit /\ [][InterleavedNext]_vars

\* C11: block independence.  Whatever the order of the calls and however
\* their steps interleave, the simulator of each block is at every moment
\* the one that converting the instructions it has taken so far, alone,
\* gives; the container it returns, or the exception it raises, is the one
\* that converting the block alone gives.
C11_BlockIndependence ==
    \A l \in DOMAIN sims :
        LET j == sims[l]
            alone == convert_bc_to_ddg(j.block, bcmap)
        IN  /\ j.pc = "loop" =>
                 /\ j.converter =
                      convert_all(BC2DDG_init, SubSeq(j.instlist, 1, j.n), 1)
                 /\ j.in_effect = BC2DDG_init.effect
            /\ j.pc = "done" => alone.raised = None /\ j.blk = alone.blk
            /\ j.pc = "raised" => alone.raised = j.err

\* Two calls are in the middle of their loops at once: one has converted one
\* instruction and holds a value on its stack, the other has converted two
\* and its stack is empty again.
C11_Witness ==
    \E l1, l2 \in DOMAIN sims :
        /\ l1 # l2
        /\ sims[l1].pc = "loop" /\ sims[l1].n = 1
        /\ sims[l2].pc = "loop" /\ sims[l2].n = 2
        /\ Len(sims[l1].converter.stack) = 1
        /\ sims[l2].converter.stack = <<>>
        /\ Len(sims[l2].converter.ops) > 1

(* ------------------------------- C12 ---------------------------------- *)

\* Scenario A: LOAD_CONST 1, LOAD_CONST 2, BINARY_OP +, RETURN_VALUE.
ScenarioA == << "LOAD_CONST", "LOAD_CONST", "BINARY_OP", "RETURN_VALUE" >>

\* The opcodes of the instructions of a block.
Opnames(b) ==
    [i \in 1..Len(get_instructions(b, bcmap)) |->
        get_instructions(b, bcmap)[i].opname]

\* The tree is a single leaf whose instructions are those of Scenario A,
\* and it was converted and returned.
ScenarioAConverted ==
    /\ dpc = "returned"
    /\ Len(scfg.graph) = 1
    /\ scfg.graph[1].val.kind = "PythonBytecodeBlock"
    /\ Opnames(scfg.graph[1].val) = ScenarioA

\* The outputs of the Ops of a heap that are effect tokens.
EffectOutputs(ops) ==
    { v \in UNION { DictVals(ops[i].outputs) : i \in 1..Len(ops) } :
        v.is_effect }

\* The container d of Scenario A: no incoming stack slot, no placeholder of
\* either kind, no value left on the stack, and an effect chain of two
\* links from the start token to out_effect, through binaryop then ret.
ScenarioAContainer(d) ==
    LET b == CHOOSE i \in OpsNamed(d.ops, "binaryop") : TRUE
        r == CHOOSE i \in OpsNamed(d.ops, "ret") : TRUE
        e == DictGet(d.ops[b].outputs, "env")
    IN  /\ d.in_stackvars = <<>>
        /\ d.out_stackvars = <<>>
        /\ OpsNamed(d.ops, "var.incoming") = {}
        /\ OpsNamed(d.ops, "stack.incoming") = {}
        /\ Cardinality(OpsNamed(d.ops, "binaryop")) = 1
        /\ Cardinality(OpsNamed(d.ops, "ret")) = 1
        /\ OpsNamed(d.ops, "start") = {1}
        /\ d.in_effect = DictGet(d.ops[1].outputs, "env")
        /\ DictGet(d.ops[b].inputs, "env") = d.in_effect
        /\ e.is_effect /\ e # d.in_effect
        /\ DictGet(d.ops[r].inputs, "env") = e
        /\ d.out_effect = DictGet(d.ops[r].outputs, "env")
        /\ d.out_effect.is_effect /\ d.out_effect # e
        /\ EffectOutputs(d.ops) = { d.in_effect, e, d.out_effect }

\* C12: Scenario A.  The block LOAD_CONST, LOAD_CONST, BINARY_OP,
\* RETURN_VALUE yields a container with empty in_stackvars, no incoming
\* placeholder, empty out_stackvars and an effect chain of length 2: the
\* binaryop node consumes the start token and declares a new one, the ret
\* node consumes that one and declares the token that is out_effect.
C12_ScenarioA ==
    ScenarioAConverted => ScenarioAContainer(result.graph[1].val)

\* Scenario A was converted: the container returned has five Ops, the last
\* being the ret node that produced out_effect.
C12_Witness ==
    /\ ScenarioAConverted
    /\ Len(result.graph[1].val.ops) = 5
    /\ result.graph[1].val.ops[5].opname = "ret"
    /\ result.graph[1].val.out_effect.parent = 5

(* ------------------------------- C13 ---------------------------------- *)

\* The pop call, by its position in the history of pops, that found the
\* stack empty and made the placeholder vs.  The stack holds nothing of the
\* block at that moment, so each such pop reaches one slot deeper into the
\* incoming stack than the one before it.
UnderflowPop(c, vs) ==
    CHOOSE n \in 1..Len(c.poplog) : c.poplog[n].underflow /\ c.poplog[n].vs = vs

\* C13: stack tuple ordering.  Both tuples of the container run bottom to
\* top: out_stackvars is the final stack from its bottom to its top, and
\* in_stackvars lists the incoming slots from the deepest one to the top of
\* the incoming stack, that is, a slot reached by a later underflow comes
\* before a slot reached by an earlier one.
C13_StackTupleOrdering ==
    pc = "done" =>
        /\ blk.out_stackvars = converter.stack
        /\ \A i, j \in 1..Len(blk.in_stackvars) :
              i < j => UnderflowPop(converter, blk.in_stackvars[i])
                         > UnderflowPop(converter, blk.in_stackvars[j])

(* ------------------------------- C14 ---------------------------------- *)

\* The simulator as the constructor left it: the one the first instruction
\* was converted from, or the current one if none was converted yet.
FirstSimulator == IF history = <<>> THEN converter ELSE history[1]

\* The token the synthetic start Op declares.
StartToken == ValueState(1, "env", 0, TRUE)

\* The first Op of a heap is the synthetic start Op: no instruction, no
\* input, the start token as its only output; no other Op is a start Op.
StartOpOnly(ops) ==
    /\ ops[1] = [opname |-> "start", bc_inst |-> None, inputs |-> <<>>,
                 outputs |-> <<[key |-> "env", val |-> StartToken]>>]
    /\ OpsNamed(ops, "start") = {1}

\* C14: initial state and in_effect.  A fresh simulator has an empty stack,
\* an empty varmap and no placeholder of either kind, and its current effect
\* token is the sole output, an effect, of one synthetic start Op without
\* input or instruction; that Op stays as it was made, and the container's
\* in_effect is always that initial token.
C14_InitialState ==
    /\ FirstSimulator.stack = <<>>
    /\ FirstSimulator.varmap = EmptyMap
    /\ FirstSimulator.incoming_vars = EmptyMap
    /\ FirstSimulator.incoming_stackvars = <<>>
    /\ Len(FirstSimulator.ops) = 1
    /\ FirstSimulator.effect = StartToken
    /\ StartToken.is_effect
    /\ StartOpOnly(converter.ops)
    /\ in_effect = StartToken
    /\ pc = "done" => blk.in_effect = StartToken /\ StartOpOnly(blk.ops)

\* A finished block whose effect token was replaced and that took a value
\* from the incoming stack: the simulator is far from its initial state.
C14_Witness ==
    /\ pc = "done"
    /\ blk.out_effect # blk.in_effect
    /\ blk.in_stackvars # <<>>
    /\ blk.out_stackvars # <<>>
    /\ blk.in_effect = FirstSimulator.effect

(* ------------------------------- C15 ---------------------------------- *)

\* The value j places below the top of the stack (1: the top) as the
\* instruction converted from the simulator b to the simulator a finds it:
\* a value of b's stack or, below its bottom, the placeholder that the
\* matching underflow appended to incoming_stackvars.
ValueAtDepth(b, a, j) ==
    IF j <= Len(b.stack)
    THEN b.stack[Len(b.stack) + 1 - j]
    ELSE a.incoming_stackvars[Len(b.incoming_stackvars) + j - Len(b.stack)]

\* The number of values an instruction that pops n values finds missing.
Missing(b, n) == IF n > Len(b.stack) THEN n - Len(b.stack) ELSE 0

\* C15: CALL argument order.  A CALL with argc = N takes the callee from
\* the top of the stack and N+1 further values, bound as arg.0 .. arg.N in
\* the order they were pushed: arg.0 is the deepest of them, arg.N the one
\* directly beneath the callee.  The values the stack lacks are
\* stack.incoming placeholders, made in pop order.
C15_CallArgumentOrder ==
    \A k \in Converted :
        instlist[k].opname = "CALL" =>
            LET b  == Before(k)
                a  == After(k)
                N  == instlist[k].argval
                op == OpOfInst(a.ops, k)
            IN  /\ DictKeySeq(a.ops[op].inputs)
                     = <<"env", "callee">> \o [m \in 1..(N + 1) |-> ArgName(m - 1)]
                /\ DictGet(a.ops[op].inputs, "callee") = ValueAtDepth(b, a, 1)
                /\ \A m \in 0..N :
                      DictGet(a.ops[op].inputs, ArgName(m))
                         = ValueAtDepth(b, a, N + 2 - m)
                /\ Len(a.poplog) = Len(b.poplog) + N + 2
                /\ Len(a.incoming_stackvars)
                     = Len(b.incoming_stackvars) + Missing(b, N + 2)
                /\ \A j \in 1..Missing(b, N + 2) :
                      LET vs == a.incoming_stackvars[Len(b.incoming_stackvars) + j]
                      IN  /\ a.ops[vs.parent].opname = "stack.incoming"
                          /\ vs.parent = Len(b.ops) + j
                          /\ vs = a.poplog[Len(b.poplog) + Len(b.stack) + j].vs

\* A CALL with argc = 1 was translated on a stack of two values: the callee
\* and arg.1 were on the stack, arg.0 is a placeholder.
C15_Witness ==
    /\ Len(history) = 3
    /\ IsCall(3, 1)
    /\ Len(Before(3).stack) = 2
    /\ Before(3).stack[1] # Before(3).stack[2]
    /\ Len(converter.incoming_stackvars) = 1
    /\ DictGet(converter.ops[OpOfInst(converter.ops, 3)].inputs, "arg.0")
         = converter.incoming_stackvars[1]
    /\ DictGet(converter.ops[OpOfInst(converter.ops, 3)].inputs, "arg.1")
         = Before(3).stack[1]

(* ------------------------------- C16 ---------------------------------- *)

\* C16: BINARY_OP operand order.  BINARY_OP binds the value on top of the
\* stack as rhs, the one beneath it as lhs and the current effect token as
\* env; the node's new effect output replaces the effect token and its out
\* output is pushed on what the two pops left.  With both operands on the
\* stack the depth goes down by exactly one.
C16_BinaryOpOperandOrder ==
    \A k \in Converted :
        instlist[k].opname = "BINARY_OP" =>
            LET b  == Before(k)
                a  == After(k)
                op == OpOfInst(a.ops, k)
            IN  /\ a.ops[op].opname = "binaryop"
                /\ DictKeys(a.ops[op].inputs) = {"env", "lhs", "rhs"}
                /\ DictGet(a.ops[op].inputs, "rhs") = ValueAtDepth(b, a, 1)
                /\ DictGet(a.ops[op].inputs, "lhs") = ValueAtDepth(b, a, 2)
                /\ DictGet(a.ops[op].inputs, "env") = b.effect
                /\ DictKeySeq(a.ops[op].outputs) = <<"env", "out">>
                /\ a.effect = DictGet(a.ops[op].outputs, "env")
                /\ a.effect.is_effect
                /\ a.effect # b.effect
                /\ a.stack = SubSeq(b.stack, 1, Len(b.stack) - 2)
                                \o <<DictGet(a.ops[op].outputs, "out")>>
                /\ Len(b.stack) >= 2 =>
                      /\ Len(a.stack) = Len(b.stack) - 1
                      /\ DictGet(a.ops[op].inputs, "rhs") = b.stack[Len(b.stack)]
                      /\ DictGet(a.ops[op].inputs, "lhs") = b.stack[Len(b.stack) - 1]
                      /\ Len(a.ops) = Len(b.ops) + 1

\* BINARY_OP was translated with two different values on the stack: a
\* loaded variable beneath a constant.
C16_Witness ==
    /\ Len(history) = 3
    /\ instlist[1].opname = "LOAD_FAST"
    /\ instlist[2].opname = "LOAD_CONST"
    /\ instlist[3].opname = "BINARY_OP"
    /\ Len(Before(3).stack) = 2
    /\ Len(converter.stack) = 1
    /\ converter.ops[converter.stack[1].parent].opname = "binaryop"

(* ------------------------------- C17 ---------------------------------- *)

\* No ValueState of the set is an effect token.
NoEffectIn(vals) == \A v \in vals : ~v.is_effect

\* C17: effect-flag safety.  The current effect token is an effect in every
\* state, so the assertion of replace_effect never fails: the only
\* exception a conversion raises is the AttributeError of a missing rule.
\* No effect token is ever on the operand stack, in the varmap, among the
\* placeholders, or in the container's in_stackvars, out_stackvars or
\* out_vars.
C17_EffectFlagSafety ==
    /\ converter.effect.is_effect
    /\ \A k \in Converted : Before(k).effect.is_effect
    /\ err # None => err.type = "AttributeError"
    /\ pc = "raised" <=> err # None
    /\ NoEffectIn(SeqVals(converter.stack))
    /\ NoEffectIn(MapVals(converter.varmap))
    /\ NoEffectIn(SeqVals(converter.incoming_stackvars))
    /\ NoEffectIn(MapVals(converter.incoming_vars))
    /\ pc = "done" =>
          /\ blk.in_effect.is_effect
          /\ blk.out_effect.is_effect
          /\ NoEffectIn(SeqVals(blk.in_stackvars))
          /\ NoEffectIn(SeqVals(blk.out_stackvars))
          /\ NoEffectIn(MapVals(blk.out_vars))

\* A finished block that replaced its effect token and whose in_stackvars,
\* out_stackvars and out_vars all hold a value.
C17_Witness ==
    /\ pc = "done"
    /\ blk.out_effect # blk.in_effect
    /\ blk.in_stackvars # <<>>
    /\ blk.out_stackvars # <<>>
    /\ DOMAIN blk.out_vars # {}

(* ------------------------------- C18 ---------------------------------- *)

\* The opcodes that are pure markers.
Markers == {"RESUME", "PRECALL", "JUMP_BACKWARD"}

\* C18: markers are no-ops.  Translating RESUME, PRECALL or JUMP_BACKWARD
\* leaves the stack, the varmap, the effect token and both placeholder
\* records as they were, creates no Op and makes no push or pop call,
\* whatever the state it is translated in.
C18_MarkersAreNoOps ==
    \A k \in Converted :
        instlist[k].opname \in Markers =>
            /\ After(k).stack = Before(k).stack
            /\ After(k).varmap = Before(k).varmap
            /\ After(k).effect = Before(k).effect
            /\ After(k).incoming_stackvars = Before(k).incoming_stackvars
            /\ After(k).incoming_vars = Before(k).incoming_vars
            /\ After(k).ops = Before(k).ops
            /\ After(k).npush = Before(k).npush
            /\ After(k).poplog = Before(k).poplog
            /\ After(k).raised = None

\* The three markers were translated one after the other on the empty
\* stack of a fresh simulator, no placeholder having been made.
C18_Witness ==
    /\ Len(history) = 3
    /\ { instlist[k].opname : k \in 1..3 } = Markers
    /\ converter.stack = <<>>
    /\ converter.incoming_stackvars = <<>>
    /\ Len(converter.ops) = 1

\* A marker was translated in a simulator that holds a value on its stack,
\* a variable and a placeholder.
C18_WitnessBusy ==
    /\ Len(history) = 3
    /\ instlist[3].opname = "PRECALL"
    /\ converter.stack # <<>>
    /\ DOMAIN converter.varmap # {}
    /\ converter.incoming_stackvars # <<>>

(* ------------------------------- C19 ---------------------------------- *)

\* The opcodes whose rule replaces the effect token, and those whose rule
\* binds it as the env input of its node.
EffectOpnames == {"CALL", "BINARY_OP", "RETURN_VALUE"}
EnvReaders == EffectOpnames \cup {"LOAD_GLOBAL"}

\* The instructions before the k-th whose rule replaces the effect token,
\* and the position of the latest of them, 0 if there is none.
EffectInstsBefore(k) ==
    { j \in Converted : j < k /\ instlist[j].opname \in EffectOpnames }
LastEffectInst(k) ==
    IF EffectInstsBefore(k) = {} THEN 0
    ELSE CHOOSE j \in EffectInstsBefore(k) :
            \A i \in EffectInstsBefore(k) : i <= j

\* The effect token in force when the k-th instruction is reached: the
\* effect output of the node of the latest effect instruction before it,
\* or the start token.
EffectInForce(ops, k) ==
    IF LastEffectInst(k) = 0 THEN in_effect
    ELSE DictGet(ops[OpOfInst(ops, LastEffectInst(k))].outputs, "env")

\* C19: effect threading.  The effect token changes only when a CALL, a
\* BINARY_OP or a RETURN_VALUE is translated, and then becomes the effect
\* output of the node made.  The env input of the node of an instruction is
\* the effect output of the node of the latest earlier CALL, BINARY_OP or
\* RETURN_VALUE, or the start token if there is none.  out_effect is the
\* effect output of the last such instruction, and equals in_effect exactly
\* when the block has none.
C19_EffectThreading ==
    /\ \A k \in Converted :
          LET b  == Before(k)
              a  == After(k)
          IN  /\ b.effect = EffectInForce(a.ops, k)
              /\ instlist[k].opname \notin EffectOpnames => a.effect = b.effect
              /\ instlist[k].opname \in EffectOpnames =>
                    /\ a.effect # b.effect
                    /\ a.effect = DictGet(a.ops[OpOfInst(a.ops, k)].outputs, "env")
              /\ instlist[k].opname \in EnvReaders =>
                    DictGet(a.ops[OpOfInst(a.ops, k)].inputs, "env")
                       = EffectInForce(a.ops, k)
              /\ \A i \in (Len(b.ops) + 1)..Len(a.ops) :
                    "env" \in DictKeys(a.ops[i].inputs) =>
                        instlist[k].opname \in EnvReaders /\ i = OpOfInst(a.ops, k)
    /\ converter.effect = EffectInForce(converter.ops, Len(history) + 1)
    /\ pc = "done" =>
          /\ blk.out_effect = EffectInForce(blk.ops, Len(history) + 1)
          /\ blk.out_effect = blk.in_effect
                <=> EffectInstsBefore(Len(history) + 1) = {}

\* A finished block BINARY_OP, LOAD_GLOBAL, RETURN_VALUE: the global node
\* reads the token of binaryop, and so does ret, whose own token is
\* out_effect.
C19_Witness ==
    /\ pc = "done"
    /\ Len(history) = 3
    /\ instlist[1].opname = "BINARY_OP"
    /\ instlist[2].opname = "LOAD_GLOBAL"
    /\ instlist[3].opname = "RETURN_VALUE"
    /\ DictGet(blk.ops[OpOfInst(blk.ops, 2)].inputs, "env")
         = DictGet(blk.ops[OpOfInst(blk.ops, 1)].outputs, "env")
    /\ blk.out_effect = DictGet(blk.ops[OpOfInst(blk.ops, 3)].outputs, "env")
    /\ blk.out_effect # blk.in_effect

\* A finished block without CALL, BINARY_OP or RETURN_VALUE that read the
\* effect token: out_effect is in_effect.
C19_WitnessNoEffect ==
    /\ pc = "done"
    /\ Len(history) = 3
    /\ instlist[2].opname = "LOAD_GLOBAL"
    /\ blk.out_effect = blk.in_effect

(* ------------------------------- C20 ---------------------------------- *)

\* The net stack effect of an instruction, as the claim tabulates it.
NetEffect(inst) ==
    CASE inst.opname \in {"LOAD_GLOBAL", "LOAD_CONST", "LOAD_FAST"} -> 1
      [] inst.opname \in {"STORE_FAST", "RETURN_VALUE", "BINARY_OP"} -> 0 - 1
      [] inst.opname \in {"GET_ITER", "FOR_ITER"} -> 0
      [] inst.opname = "CALL" -> 0 - (inst.argval + 1)
      [] inst.opname \in Markers -> 0

\* The sum of the net stack effects of the first k instructions.
RECURSIVE SumNetEffect(_)
SumNetEffect(k) ==
    IF k = 0 THEN 0 ELSE SumNetEffect(k - 1) + NetEffect(instlist[k])

\* The depth of the stack of the simulator c is the number of push calls
\* minus the number of pop calls plus the number of incoming stack slots.
DepthConserved(c) ==
    Len(c.stack) = c.npush - Len(c.poplog) + Len(c.incoming_stackvars)

\* C20: stack depth conservation.  After any prefix of a block the depth of
\* the stack is pushes minus pop calls plus len(incoming_stackvars); each
\* instruction changes depth minus incoming slots by its net stack effect;
\* for the finished container len(out_stackvars) - len(in_stackvars) is the
\* sum of the net stack effects of its instructions.
C20_StackDepthConservation ==
    /\ DepthConserved(converter)
    /\ \A k \in Converted :
          /\ DepthConserved(Before(k))
          /\ (Len(After(k).stack) - Len(After(k).incoming_stackvars))
               - (Len(Before(k).stack) - Len(Before(k).incoming_stackvars))
               = NetEffect(instlist[k])
    /\ pc = "done" =>
          Len(blk.out_stackvars) - Len(blk.in_stackvars)
             = SumNetEffect(Len(history))

\* A finished block LOAD, LOAD, CALL with argc = 2: four pops on a stack of
\* two values, two incoming slots, one value left, net effect -1.
C20_Witness ==
    /\ pc = "done"
    /\ Len(history) = 3
    /\ IsCall(3, 2)
    /\ Len(Before(3).stack) = 2
    /\ Len(blk.in_stackvars) = 2
    /\ Len(blk.out_stackvars) = 1
    /\ SumNetEffect(3) = 0 - 1

(* ------------------------------- C21 ---------------------------------- *)

\* The outputs of the Ops of a heap that have the given opname.
OutputsOf(ops, opname) ==
    UNION { DictVals(ops[i].outputs) : i \in OpsNamed(ops, opname) }

\* What is reached from out_vars, out_stackvars, out_effect and
\* in_stackvars of a container through the inputs of producing Ops.
ReachableFromOutputs(b) ==
    InputClosure(b.ops,
        {b.out_effect} \cup SeqVals(b.in_stackvars)
            \cup SeqVals(b.out_stackvars) \cup MapVals(b.out_vars))

\* C21: placeholders are never lost.  In a finished container every output
\* of a stack.incoming Op is an entry of in_stackvars, and every output of a
\* var.incoming Op is reached from out_vars, out_stackvars, out_effect or
\* in_stackvars through the inputs of producing Ops, also when the variable
\* was read and then overwritten by a STORE_FAST.
C21_PlaceholdersNeverLost ==
    pc = "done" =>
        /\ OutputsOf(blk.ops, "stack.incoming") \subseteq SeqVals(blk.in_stackvars)
        /\ OutputsOf(blk.ops, "var.incoming") \subseteq ReachableFromOutputs(blk)

(* ====================== pipeline.py: Pipeline ========================= *)

\* The most Pipeline instances created, and the most calls of
\* insert_specializer and try_insert_specializer made in all.
MaxPipes == 2
MaxInserts == 2

\* The class attribute Pipeline.order as the class body assigns it.
Pipeline_order ==
    << "const_folding", "type_infer", "type_set", "closure_type_inference",
       "transform_for", "specialize", "late_specializer",
       "fix_ast_locations", "codegen" >>

\* The stage methods that end in `return ast`, and those that return what
\* the visit of a transformer returned.
ReturnsAst ==
    {"type_infer", "type_set", "specialize", "fix_ast_locations", "codegen"}
ReturnsVisit ==
    {"const_folding", "closure_type_inference", "transform_for",
     "late_specializer"}
Methods == ReturnsAst \cup ReturnsVisit

\* An ast is known by its identity.  `return ast` returns the node the
\* stage was given; what a visit returns is a node of its own, told apart
\* from every node met before.
FirstAst == 0
NewNode(ast) == ast + 1
StageResult(method_name, ast) ==
    IF method_name \in ReturnsAst THEN ast ELSE NewNode(ast)

\* x in l; l.index(x) counted from 1 (0: ValueError); l.insert(i, x) with i
\* counted from 0; l.remove(x).
ListHas(l, x) == \E i \in 1..Len(l) : l[i] = x
ListIndex(l, x) ==
    IF ListHas(l, x)
    THEN CHOOSE i \in 1..Len(l) : l[i] = x /\ \A j \in 1..(i - 1) : l[j] # x
    ELSE 0
ListInsert(l, i, x) == SubSeq(l, 1, i) \o <<x>> \o SubSeq(l, i + 1, Len(l))
ListRemove(l, x) ==
    SubSeq(l, 1, ListIndex(l, x) - 1) \o SubSeq(l, ListIndex(l, x) + 1, Len(l))

\* A Pipeline instance: order is the list object self.order refers to; the
\* rest is history: was an order passed, the codegen flag, the class order
\* and self.order as __init__ left them, the insert calls made on it.
PipelineObject(order, explicit, codegen, ls) ==
    [order |-> order, explicit |-> explicit, codegen |-> codegen,
     class0 |-> ls[1], order0 |-> ls[order], ncalls |-> 0]

\* __init__ that takes the class list itself as self.order.
Pipeline_init_shares_class_order(ls, order, codegen) ==
    IF order = None
    THEN Bind(IF codegen THEN ls
              ELSE [ls EXCEPT ![1] = ListRemove(@, "codegen")], LAMBDA ls2 :
         [lists |-> ls2,
          pipe  |-> [PipelineObject(1, FALSE, codegen, ls2)
                        EXCEPT !.class0 = ls[1]]])
    ELSE [lists |-> ls, pipe |-> PipelineObject(order.ref, TRUE, codegen, ls)]

\* Pipeline.__init__, lines 81-86, on the heap ls of list objects: order is
\* None or [ref |-> the list passed].  [lists |-> the heap after, pipe |-> self]
Pipeline_init(ls, order, codegen) ==
    IF order = None
    THEN Bind(Append(ls, IF codegen THEN ls[1]
                         ELSE ListRemove(ls[1], "codegen")), LAMBDA ls2 :
         [lists |-> ls2,
          pipe  |-> PipelineObject(Len(ls2), FALSE, codegen, ls2)])
    ELSE [lists |-> ls, pipe |-> PipelineObject(order.ref, TRUE, codegen, ls)]

\* Pipeline.insert_specializer: [lists |-> the heap after, raised |-> the
\* ValueError of list.index or None]
insert_specializer(ls, self, name, after) ==
    IF ~ListHas(ls[self.order], after)
    THEN [lists |-> ls, raised |-> [type |-> "ValueError"]]
    ELSE [lists  |-> [ls EXCEPT ![self.order] =
                         ListInsert(@, ListIndex(@, after), name)],
          raised |-> None]

\* Pipeline.try_insert_specializer
try_insert_specializer(ls, self, name, after) ==
    IF ListHas(ls[self.order], after)
    THEN insert_specializer(ls, self, name, after)
    ELSE [lists |-> ls, raised |-> None]

\* The names a caller inserts: one without a method of Pipeline, and one
\* that is in the default order already; and the stages it inserts after.
InsertNames == {"extra", "specialize"}
InsertAfters == {"type_infer", "extra"}

\* The number of insert calls made so far on the first n instances.
RECURSIVE InsertCalls(_)
InsertCalls(n) == IF n = 0 THEN 0 ELSE InsertCalls(n - 1) + pipes[n].ncalls

\* A call of run_pipeline is between two turns of its loop.
Running == prun # None /\ prun.method = "run_pipeline" /\ prun.status = "running"

\* A call of run_pipeline was made; after it ends its instance is left alone.
RunMade == prun # None /\ prun.method = "run_pipeline"

\* The Pipeline class exists: its order attribute is the first list object.
PipelineInit ==
    /\ lists = << Pipeline_order >>
    /\ pipes = <<>>
    /\ prun = None
    /\ EnvIdle
    /\ JobsIdle
    /\ BlockIdle
    /\ DriverIdle

\* self is added to the instances, the heap is what __init__ left.
AfterPipelineInit(r) ==
    /\ lists' = r.lists
    /\ pipes' = Append(pipes, r.pipe)
    /\ UNCHANGED <<prun, blockvars, drivervars, jobvars, envvars>>

\* Pipeline(...) with order=None and codegen given.
pipeline_new_default ==
    /\ ~RunMade
    /\ Len(pipes) < MaxPipes
    /\ \E codegen \in BOOLEAN :
          AfterPipelineInit(Pipeline_init(lists, None, codegen))

\* Pipeline(..., order=l) where l is a list that already exists: the class
\* attribute or the order of an instance.
pipeline_new_explicit ==
    /\ ~RunMade
    /\ Len(pipes) < MaxPipes
    /\ \E l \in 1..Len(lists) :
          AfterPipelineInit(Pipeline_init(lists, [ref |-> l], FALSE))

\* Pipeline(..., order=['type_infer']) as infer_types makes it: the list is
\* a new object.
pipeline_new_literal ==
    /\ ~RunMade
    /\ Len(pipes) < MaxPipes
    /\ AfterPipelineInit(
          Pipeline_init(Append(lists, <<"type_infer">>),
                        [ref |-> Len(lists) + 1], FALSE))

\* The record of a call of insert_specializer or try_insert_specializer that
\* ended: the heap before it is history.
InsertCall(method, p, name, after, r) ==
    [method |-> method, pipe |-> p, name |-> name, after |-> after,
     before |-> lists, raised |-> r.raised]

AfterInsert(method, p, name, after, r) ==
    /\ lists' = r.lists
    /\ pipes' = [pipes EXCEPT ![p].ncalls = @ + 1]
    /\ prun' = InsertCall(method, p, name, after, r)
    /\ UNCHANGED <<blockvars, drivervars, jobvars, envvars>>

pipeline_insert_specializer ==
    /\ ~RunMade
    /\ \E p \in 1..Len(pipes), name \in InsertNames, after \in InsertAfters :
          /\ InsertCalls(Len(pipes)) < MaxInserts
          /\ AfterInsert("insert_specializer", p, name, after,
                         insert_specializer(lists, pipes[p], name, after))

pipeline_try_insert_specializer ==
    /\ ~RunMade
    /\ \E p \in 1..Len(pipes), name \in InsertNames, after \in InsertAfters :
          /\ InsertCalls(Len(pipes)) < MaxInserts
          /\ AfterInsert("try_insert_specializer", p, name, after,
                         try_insert_specializer(lists, pipes[p], name, after))

\* run_pipeline up to its loop: ast = self.ast.  calls is history: one entry
\* per stage method called, with the ast passed and the ast returned.
run_pipeline_start ==
    /\ ~RunMade
    /\ \E p \in 1..Len(pipes) :
          prun' = [method |-> "run_pipeline", pipe |-> p, status |-> "running",
                   i |-> 0, ast |-> FirstAst, calls |-> <<>>,
                   raised |-> None, result |-> None]
    /\ UNCHANGED <<lists, pipes, blockvars, drivervars, jobvars, envvars>>

\* The list the loop of run_pipeline walks, and the name it is at.
RunOrder == lists[pipes[prun.pipe].order]
RunMethodName == RunOrder[prun.i + 1]

\* One turn of the loop: ast = getattr(self, method_name)(ast).
run_pipeline_stage ==
    /\ Running
    /\ prun.i < Len(RunOrder)
    /\ RunMethodName \in Methods
    /\ prun' = [prun EXCEPT
                  !.i = @ + 1,
                  !.ast = StageResult(RunMethodName, prun.ast),
                  !.calls = Append(@, [stage |-> RunMethodName,
                                       ast_in |-> prun.ast,
                                       ast_out |-> StageResult(RunMethodName,
                                                               prun.ast)])]
    /\ UNCHANGED <<lists, pipes, blockvars, drivervars, jobvars, envvars>>

\* getattr(self, method_name) finds no such method: AttributeError.
run_pipeline_no_method ==
    /\ Running
    /\ prun.i < Len(RunOrder)
    /\ RunMethodName \notin Methods
    /\ prun' = [prun EXCEPT !.status = "raised",
                            !.raised = [type |-> "AttributeError",
                                        name |-> RunMethodName]]
    /\ UNCHANGED <<lists, pipes, blockvars, drivervars, jobvars, envvars>>

\* The loop is over: return self.func_signature, self.symtab, ast.
run_pipeline_return ==
    /\ Running
    /\ prun.i = Len(RunOrder)
    /\ prun' = [prun EXCEPT !.status = "returned", !.result = prun.ast]
    /\ UNCHANGED <<lists, pipes, blockvars, drivervars, jobvars, envvars>>

PipelineNext ==
    \/ pipeline_new_default
    \/ pipeline_new_explicit
    \/ pipeline_new_literal
    \/ pipeline_insert_specializer
    \/ pipeline_try_insert_specializer
    \/ run_pipeline_start
    \/ run_pipeline_stage
    \/ run_pipeline_no_method
    \/ run_pipeline_return

PipelineSpec == PipelineInit /\ [][PipelineNext]_vars

(* ------------------------------- C22 ---------------------------------- *)

\* The call that ended last was insert_specializer or
\* try_insert_specializer.
InsertMade ==
    prun # None /\ prun.method \in {"insert_specializer", "try_insert_specializer"}

\* The instances other than the one the last insert call was made on that
\* existed when it was made.
OtherPipes ==
    { q \in 1..Len(pipes) :
        q # prun.pipe /\ pipes[q].order <= Len(prun.before) }

\* The list new is the list old with name put immediately after the first
\* occurrence of after.
InsertedAfterFirst(old, new, name, after) ==
    \E i \in 1..Len(old) :
        /\ old[i] = after
        /\ \A j \in 1..(i - 1) : old[j] # after
        /\ Len(new) = Len(old) + 1
        /\ \A j \in 1..Len(new) :
              new[j] = IF j <= i THEN old[j]
                       ELSE IF j = i + 1 THEN name
                       ELSE old[j - 1]

\* run_pipeline calls the stage methods in the order of self.order, one
\* call per entry, each with the ast the one before returned, and returns
\* the ast of the last; it is cut short only by a name without a method.
RunInOrder ==
    RunMade =>
        /\ [k \in 1..Len(prun.calls) |-> prun.calls[k].stage]
             = SubSeq(RunOrder, 1, Len(prun.calls))
        /\ \A k \in 1..Len(prun.calls) :
              prun.calls[k].ast_in
                 = IF k = 1 THEN FirstAst ELSE prun.calls[k - 1].ast_out
        /\ prun.status = "returned" =>
              /\ Len(prun.calls) = Len(RunOrder)
              /\ prun.result = IF prun.calls = <<>> THEN FirstAst
                               ELSE prun.calls[Len(prun.calls)].ast_out
        /\ prun.status = "raised" =>
              RunOrder[Len(prun.calls) + 1] \notin Methods

\* An instance built without an order got the class order of that moment,
\* with codegen in it only if codegen was set.
DefaultOrder ==
    \A p \in 1..Len(pipes) :
        ~pipes[p].explicit =>
            /\ pipes[p].order # 1
            /\ pipes[p].order0
                 = IF pipes[p].codegen THEN pipes[p].class0
                   ELSE SelectSeq(pipes[p].class0, LAMBDA x : x # "codegen")
            /\ ~pipes[p].codegen => ~ListHas(pipes[p].order0, "codegen")

\* An insert that found `after` put the name immediately after its first
\* occurrence in self.order and touched no other list object; a
\* try_insert_specializer that did not find it changed nothing.
InsertPlaces ==
    InsertMade =>
        LET l == pipes[prun.pipe].order
        IN  /\ ListHas(prun.before[l], prun.after) =>
                 /\ prun.raised = None
                 /\ InsertedAfterFirst(prun.before[l], lists[l],
                                       prun.name, prun.after)
                 /\ \A m \in 1..Len(prun.before) :
                       m # l => lists[m] = prun.before[m]
            /\ ~ListHas(prun.before[l], prun.after) =>
                 /\ SubSeq(lists, 1, Len(prun.before)) = prun.before
                 /\ prun.method = "try_insert_specializer" => prun.raised = None
                 /\ prun.method = "insert_specializer" => prun.raised # None

\* C22 as stated: run_pipeline runs the stages of self.order in order, each
\* on the ast of the one before; the default self.order is the class order
\* with codegen only if asked for; an insert goes immediately after the
\* first occurrence of `after`, try_insert_specializer does nothing when it
\* is absent; and an insert on an instance built without an order changes
\* neither the class-level Pipeline.order nor the order of any other
\* instance.
C22_PipelineStageOrder ==
    /\ RunInOrder
    /\ DefaultOrder
    /\ InsertPlaces
    /\ InsertMade /\ ~pipes[prun.pipe].explicit =>
          /\ lists[1] = prun.before[1]
          /\ \A q \in OtherPipes :
                lists[pipes[q].order] = prun.before[pipes[q].order]

\* What holds of the code: all of C22 but its last clause, which holds for
\* the class-level Pipeline.order and for every other instance that does
\* not hold the very same list object; an instance built with
\* order=<the first one's order> holds it, __init__ making no copy.
C22_PipelineStageOrderUnshared ==
    /\ RunInOrder
    /\ DefaultOrder
    /\ InsertPlaces
    /\ InsertMade /\ ~pipes[prun.pipe].explicit =>
          /\ lists[1] = prun.before[1]
          /\ \A q \in OtherPipes :
                pipes[q].order # pipes[prun.pipe].order =>
                    lists[pipes[q].order] = prun.before[pipes[q].order]

\* Two instances built without an order, one with codegen and one without;
\* "extra" was inserted after type_infer in the first and the second still
\* has the order its constructor gave it.
C22_Witness ==
    /\ Len(pipes) = 2
    /\ ~pipes[1].explicit /\ pipes[1].codegen
    /\ ~pipes[2].explicit /\ ~pipes[2].codegen
    /\ InsertMade
    /\ prun.method = "insert_specializer"
    /\ prun.pipe = 1
    /\ prun.raised = None
    /\ SubSeq(lists[pipes[1].order], 1, 3)
         = <<"const_folding", "type_infer", "extra">>
    /\ Len(lists[pipes[1].order]) = 10
    /\ lists[pipes[2].order] = pipes[2].order0
    /\ Len(lists[pipes[2].order]) = 8
    /\ lists[1] = Pipeline_order

\* run_pipeline returned on an instance built without an order in which
\* specialize was inserted a second time: ten calls, specialize twice.
C22_WitnessRun ==
    /\ RunMade
    /\ prun.status = "returned"
    /\ ~pipes[prun.pipe].explicit
    /\ Len(prun.calls) = 10
    /\ prun.calls[3].stage = "specialize"
    /\ prun.calls[7].stage = "specialize"
    /\ prun.result = 4

(* ================ pipeline.py: PipelineEnvironment ==================== *)

\* The most calls of the composed pipeline made on one environment.
MaxRuns == 2

\* PipelineEnvironment.init_stages: the stage classes, by name.
StageClass(name) == [kind |-> "class", name |-> name]
init_stages ==
    << StageClass("ConstFolding"), StageClass("TypeInfer"),
       StageClass("TypeSet"), StageClass("ClosureTypeInference"),
       StageClass("TransformFor"), StageClass("Specialize"),
       StageClass("LateSpecializer"), StageClass("FixASTLocations"),
       StageClass("CodeGen") >>

\* The transforms that end in `return ast`; the others return what the
\* visit of a transformer returned.
TransformReturnsAst ==
    {"TypeInfer", "TypeSet", "Specialize", "FixASTLocations", "CodeGen"}
TransformResult(name, ast) ==
    IF name \in TransformReturnsAst THEN ast ELSE NewNode(ast)

\* check_stage for the two kinds of stage init_env meets: a PipelineStage
\* subclass is instantiated, a composed function is taken as it is.
check_stage(stage) ==
    IF stage.kind = "class"
    THEN [name |-> stage.name,
          stage |-> [kind |-> "instance", name |-> stage.name]]
    ELSE [name |-> stage.name, stage |-> stage]

\* compose_stages that calls f0 first and f1 on its result.
compose_stages_f0_first(f0, f1) ==
    [kind |-> "composition",
     name |-> check_stage(f0).name \o "_o_" \o check_stage(f1).name,
     f0   |-> check_stage(f1).stage,
     f1   |-> check_stage(f0).stage]

\* compose_stages: the function (ast, env) -> f0(f1(ast, env), env).
compose_stages(f0, f1) ==
    [kind |-> "composition",
     name |-> check_stage(f0).name \o "_o_" \o check_stage(f1).name,
     f0   |-> check_stage(f0).stage,
     f1   |-> check_stage(f1).stage]

\* reduce(compose_stages, pipe): the fold from the left, acc being the
\* result for the first k - 1 items.
RECURSIVE reduce_from(_, _, _)
reduce_from(acc, pipe, k) ==
    IF k > Len(pipe) THEN acc
    ELSE reduce_from(compose_stages(acc, pipe[k]), pipe, k + 1)
reduce_compose_stages(pipe) == reduce_from(pipe[1], pipe, 2)

\* env.crnt = cls(ret_val): an environment with no attribute of a function
\* yet.  attrs is the set of attribute names hasattr finds.
NewCrnt == [attrs |-> {"parent"}, symtab_is_none |-> FALSE]

\* PipelineEnvironment.init_env
init_env ==
    [pipeline |-> reduce_compose_stages(Reversed(init_stages)),
     crnt     |-> NewCrnt]

\* init_func on env.crnt; symtab_is_none: the caller passed symtab=None.
init_func(crnt, symtab_is_none) ==
    [crnt EXCEPT
        !.attrs = @ \cup {"func", "ast", "func_signature", "func_name",
                          "symtab", "llvm_module", "nopython", "locals",
                          "kwargs"},
        !.symtab_is_none = symtab_is_none]

\* The exception of an assert that failed, and of an attribute not found.
AssertionError == [type |-> "AssertionError"]
MissingAttribute == [type |-> "AttributeError"]

\* stage.preconditions(ast, env): "True", "False", or "AttributeError"
\* when the attribute it reads is not there.
preconditions(name, crnt) ==
    IF name = "ConstFolding"
    THEN IF "constvars" \notin crnt.attrs THEN "True" ELSE "False"
    ELSE IF name = "TypeInfer"
    THEN IF "symtab" \notin crnt.attrs THEN "AttributeError"
         ELSE IF crnt.symtab_is_none THEN "False" ELSE "True"
    ELSE "True"

\* stage.postconditions(ast, env)
postconditions(name, crnt) ==
    IF name = "ConstFolding"
    THEN IF "constvars" \in crnt.attrs THEN "True" ELSE "False"
    ELSE "True"

\* The transforms that call self.make_specializer, which reads
\* env.crnt.func and the other attributes init_func sets.
MakesSpecializer(name) == name # "Specialize"

\* What the transform of a stage writes to env.crnt.
TransformWrites(name, crnt) ==
    IF name = "ConstFolding" THEN [crnt EXCEPT !.attrs = @ \cup {"constvars"}]
    ELSE IF name = "TypeInfer" THEN [crnt EXCEPT !.symtab_is_none = FALSE]
    ELSE IF name = "CodeGen" THEN [crnt EXCEPT !.attrs = @ \cup {"translator"}]
    ELSE crnt

\* The calls of env.pipeline made so far; the last one; is it under way.
CurRun == erun[Len(erun)]
EnvRunning == env # None /\ erun # <<>> /\ CurRun.status = "running"
\* The callable the run is about to call or is inside.
TopCallable == CurRun.stack[Len(CurRun.stack)]
InStage(phase) ==
    /\ EnvRunning
    /\ CurRun.stack # <<>>
    /\ TopCallable.kind = "instance"
    /\ CurRun.phase = phase

\* An entry of the history of a run: what was done, by which stage, on
\* which ast, with which result.
Event(kind, name, ast_in, ast_out) ==
    [kind |-> kind, stage |-> name, ast_in |-> ast_in, ast_out |-> ast_out]

\* The run goes on as r, or ends with the exception e.
RunGoesOn(r) == erun' = [erun EXCEPT ![Len(erun)] = r]
RunRaises(e) ==
    erun' = [erun EXCEPT ![Len(erun)] =
                [@ EXCEPT !.status = "raised", !.raised = e]]

\* Nothing exists yet.
EnvInit ==
    /\ env = None
    /\ erun = <<>>
    /\ PipelineIdle
    /\ JobsIdle
    /\ BlockIdle
    /\ DriverIdle

\* env = PipelineEnvironment.init_env(context)
env_init_env ==
    /\ env = None
    /\ env' = init_env
    /\ UNCHANGED <<erun, blockvars, drivervars, jobvars, pipevars>>

\* env.crnt.init_func(func, ast, func_signature, **kws)
env_init_func ==
    /\ env # None
    /\ ~EnvRunning
    /\ "func" \notin env.crnt.attrs
    /\ \E symtab_is_none \in BOOLEAN :
          env' = [env EXCEPT !.crnt = init_func(@, symtab_is_none)]
    /\ UNCHANGED <<erun, blockvars, drivervars, jobvars, pipevars>>

\* env.pipeline(ast, env) is called.  events is history; crnt0 is env.crnt
\* as the call found it.
env_pipeline_call ==
    /\ env # None
    /\ ~EnvRunning
    /\ Len(erun) < MaxRuns
    /\ erun' = Append(erun,
                  [status |-> "running", stack |-> << env.pipeline >>,
                   phase |-> "pre", ast |-> FirstAst, events |-> <<>>,
                   crnt0 |-> env.crnt, raised |-> None, result |-> None])
    /\ UNCHANGED <<env, blockvars, drivervars, jobvars, pipevars>>

\* _numba_pipeline_composition(ast, env): f1 is called, f0 waits for its
\* result.
env_composition_call ==
    /\ EnvRunning
    /\ CurRun.stack # <<>>
    /\ TopCallable.kind = "composition"
    /\ RunGoesOn([CurRun EXCEPT
                    !.stack = SubSeq(@, 1, Len(@) - 1)
                                 \o << TopCallable.f0, TopCallable.f1 >>])
    /\ UNCHANGED <<env, blockvars, drivervars, jobvars, pipevars>>

\* PipelineStage.__call__: assert self.preconditions(ast, env)
env_stage_preconditions ==
    /\ InStage("pre")
    /\ IF preconditions(TopCallable.name, env.crnt) = "True"
       THEN RunGoesOn([CurRun EXCEPT
                         !.phase = "transform",
                         !.events = Append(@, Event("pre", TopCallable.name,
                                                    CurRun.ast, CurRun.ast))])
       ELSE IF preconditions(TopCallable.name, env.crnt) = "False"
       THEN RunRaises(AssertionError)
       ELSE RunRaises(MissingAttribute)
    /\ UNCHANGED <<env, blockvars, drivervars, jobvars, pipevars>>

\* PipelineStage.__call__: ast = self.transform(ast, env), the transformers
\* doing their work.
env_stage_transform ==
    /\ InStage("transform")
    /\ IF MakesSpecializer(TopCallable.name) /\ "func" \notin env.crnt.attrs
       THEN /\ RunRaises(MissingAttribute)
            /\ UNCHANGED env
       ELSE /\ env' = [env EXCEPT !.crnt = TransformWrites(TopCallable.name, @)]
            /\ RunGoesOn([CurRun EXCEPT
                            !.phase = "post",
                            !.ast = TransformResult(TopCallable.name, @),
                            !.events = Append(@,
                                Event("transform", TopCallable.name, CurRun.ast,
                                      TransformResult(TopCallable.name,
                                                      CurRun.ast)))])
    /\ UNCHANGED <<blockvars, drivervars, jobvars, pipevars>>

\* A transformer raises in the middle of a transform; in ConstFolding that
\* is before env.crnt.constvars is assigned (the marker) or after it (the
\* folder).
env_stage_transform_raises ==
    /\ InStage("transform")
    /\ MakesSpecializer(TopCallable.name)
    /\ "func" \in env.crnt.attrs
    /\ RunRaises([type |-> "NumbaError"])
    /\ \E assigned \in BOOLEAN :
          env' = IF assigned
                 THEN [env EXCEPT !.crnt = TransformWrites(TopCallable.name, @)]
                 ELSE env
    /\ UNCHANGED <<blockvars, drivervars, jobvars, pipevars>>

\* PipelineStage.__call__: assert self.postconditions(ast, env); return ast
env_stage_postconditions ==
    /\ InStage("post")
    /\ IF postconditions(TopCallable.name, env.crnt) = "True"
       THEN RunGoesOn([CurRun EXCEPT
                         !.phase = "pre",
                         !.stack = SubSeq(@, 1, Len(@) - 1),
                         !.events = Append(@, Event("post", TopCallable.name,
                                                    CurRun.ast, CurRun.ast))])
       ELSE RunRaises(AssertionError)
    /\ UNCHANGED <<env, blockvars, drivervars, jobvars, pipevars>>

\* The outermost composition returns its ast.
env_pipeline_return ==
    /\ EnvRunning
    /\ CurRun.stack = <<>>
    /\ RunGoesOn([CurRun EXCEPT !.status = "returned", !.result = CurRun.ast])
    /\ UNCHANGED <<env, blockvars, drivervars, jobvars, pipevars>>

EnvNext ==
    \/ env_init_env
    \/ env_init_func
    \/ env_pipeline_call
    \/ env_composition_call
    \/ env_stage_preconditions
    \/ env_stage_transform
    \/ env_stage_transform_raises
    \/ env_stage_postconditions
    \/ env_pipeline_return

EnvSpec == EnvInit /\ [][EnvNext]_vars

(***************************************************************************)
(* C23                                                                     *)
(***************************************************************************)

\* The transforms a run has made, in the order it made them.
TransformsOf(r) == SelectSeq(r.events, LAMBDA e : e.kind = "transform")

\* The names of init_stages, in the order of the list.
StageNames == [k \in 1..Len(init_stages) |-> init_stages[k].name]

\* The stages a run went through are the first ones of init_stages, in the
\* order of the list, each one given the ast the one before it returned.
StagesInOrder(r) ==
    /\ Len(TransformsOf(r)) <= Len(StageNames)
    /\ \A k \in 1..Len(TransformsOf(r)) :
          /\ TransformsOf(r)[k].stage = StageNames[k]
          /\ TransformsOf(r)[k].ast_in =
                IF k = 1 THEN FirstAst ELSE TransformsOf(r)[k - 1].ast_out

\* Every transform of a run comes right after the precondition check of the
\* same stage on the same ast, and every postcondition check right after the
\* transform of the same stage, on the ast the transform returned; no stage
\* is left without its postcondition check when the next one starts.
ChecksAroundTransform(r) ==
    \A k \in 1..Len(r.events) :
       /\ (r.events[k].kind = "pre") =
             (k = 1 \/ r.events[k - 1].kind = "post")
       /\ r.events[k].kind = "transform" =>
             /\ r.events[k - 1].kind = "pre"
             /\ r.events[k - 1].stage = r.events[k].stage
             /\ r.events[k - 1].ast_in = r.events[k].ast_in
       /\ r.events[k].kind = "post" =>
             /\ r.events[k - 1].kind = "transform"
             /\ r.events[k - 1].stage = r.events[k].stage
             /\ r.events[k - 1].ast_out = r.events[k].ast_in

\* A run that returned went through all of init_stages and returned the ast
\* of the last one, CodeGen.
ReturnedRunIsComplete(r) ==
    r.status = "returned" =>
       /\ Len(TransformsOf(r)) = Len(StageNames)
       /\ TransformsOf(r)[1].stage = "ConstFolding"
       /\ TransformsOf(r)[Len(StageNames)].stage = "CodeGen"
       /\ r.result = TransformsOf(r)[Len(StageNames)].ast_out
       /\ r.events[Len(r.events)].kind = "post"

\* A run stopped by the assertion on ConstFolding's precondition, before it
\* did anything else.
FailedAtConstFoldingPrecondition(r) ==
    /\ r.events = <<>>
    /\ r.status # "returned"
    /\ r.status = "raised" =>
          /\ r.raised = AssertionError
          /\ r.phase = "pre"
          /\ r.stack[Len(r.stack)] = check_stage(init_stages[1]).stage

\* C23: the pipeline built by init_env applies the stages in the order of
\* init_stages, ConstFolding first and CodeGen last, each one on the ast the
\* one before it returned; every stage checks its precondition before its
\* transform and its postcondition after it; a call of the pipeline on a
\* current environment that an earlier call already ran on (constvars is
\* set) fails at ConstFolding's precondition before any transform.
C23_ComposedEnvironmentPipeline ==
    env # None =>
       \A i \in 1..Len(erun) :
          /\ StagesInOrder(erun[i])
          /\ ChecksAroundTransform(erun[i])
          /\ ReturnedRunIsComplete(erun[i])
          /\ i > 1 /\ erun[i - 1].status = "returned" =>
                "constvars" \in erun[i].crnt0.attrs
          /\ "constvars" \in erun[i].crnt0.attrs =>
                FailedAtConstFoldingPrecondition(erun[i])

\* The pipeline returned once, with all nine transforms made, and the
\* second call of it was stopped by ConstFolding's assertion.
C23_Witness ==
    /\ env # None
    /\ Len(erun) = 2
    /\ erun[1].status = "returned"
    /\ Len(TransformsOf(erun[1])) = 9
    /\ erun[1].result # FirstAst
    /\ erun[2].status = "raised"
    /\ erun[2].raised = AssertionError
    /\ erun[2].events = <<>>

=============================================================================
